---------------------------- MODULE Spec2Model ----------------------------
(***************************************************************************)
(* Faculty Google Scholar dataset tools: find_scholar_ids.py (discovery of *)
(* missing scholar ids), update_citations.py (refresh of the citation      *)
(* metrics) and extract_faculty_data.py (initial extraction).              *)
(*                                                                         *)
(* Text is modelled as a sequence of characters, each a string, so that    *)
(* the normalisation, the name matching, the CSV writer/reader and the     *)
(* date parsing are computed character by character, as the code computes  *)
(* them.                                                                   *)
(***************************************************************************)
EXTENDS Integers, Sequences, FiniteSets, TLC

VARIABLES
    \* names_match applied to a pair of names
    nm_search, nm_result, matched, nm_pc,
    \* normalize_name applied to a name with and without a title
    raw_name, title, placement, norm_with, norm_without, norm_pc,
    \* save_faculty_data followed by load_faculty_data on one path
    csv_data, csv_file, csv_loaded, csv_pc,
    \* needs_update applied to a date text, a staleness window and a clock
    nu_date, nu_delay, nu_now, nu_result, nu_pc,
    \* one run of a script: which script, its arguments and the libraries
    \* that could be imported; the CSV file now and when the run started;
    \* the locals of main and of the loop that is running; the clock; the
    \* requests and sleeps made so far; what the scholarly library did at the
    \* last metrics lookup; the scholar_ids assigned; how the run ended
    script, args, DDGS_AVAILABLE, SCHOLARLY_AVAILABLE, file, file0, faculty_data, pc, loop_i, results,
    manual_id, updated_count, skipped_count, skipped_recent, error_count, still_missing,
    ambiguous_results, first_query, today, clock, events, lookup, accept_log, updated_data,
    exit_status,
    \* one run of the extraction: the paragraphs of the document, the index
    \* of the paragraph the loop is at, the locals of extract_faculty_data,
    \* the CSV file it writes, and its position
    paragraphs, para_i, current_faculty, faculty_list, csv_out, ex_pc

namesVars == <<nm_search, nm_result, matched, nm_pc>>
normVars == <<raw_name, title, placement, norm_with, norm_without, norm_pc>>
csvVars == <<csv_data, csv_file, csv_loaded, csv_pc>>
dateVars == <<nu_date, nu_delay, nu_now, nu_result, nu_pc>>
flowVars ==
    <<script, args, DDGS_AVAILABLE, SCHOLARLY_AVAILABLE, file, file0, faculty_data, pc, loop_i, results,
      manual_id, updated_count, skipped_count, skipped_recent, error_count, still_missing,
      ambiguous_results, first_query, today, clock, events, lookup, accept_log, updated_data,
      exit_status>>
extractVars == <<paragraphs, para_i, current_faculty, faculty_list, csv_out, ex_pc>>
vars == <<namesVars, normVars, csvVars, dateVars, flowVars, extractVars>>

\* Each function is run by a specification of its own; the variables of the
\* others then stay at these values.
NamesIdle ==
    /\ nm_search = <<>> /\ nm_result = <<>> /\ matched = FALSE /\ nm_pc = "idle"

NormIdle ==
    /\ raw_name = <<>> /\ title = <<>> /\ placement = "none"
    /\ norm_with = <<>> /\ norm_without = <<>> /\ norm_pc = "idle"

CsvIdle ==
    /\ csv_data = <<>> /\ csv_file = <<>> /\ csv_loaded = <<>> /\ csv_pc = "idle"

RunIdle ==
    /\ script = "none"
    /\ args = [non_interactive |-> FALSE, manual_only |-> FALSE, stats_only |-> FALSE,
               update_delay_days |-> 7]
    /\ DDGS_AVAILABLE = TRUE /\ SCHOLARLY_AVAILABLE = TRUE
    /\ file = <<>> /\ file0 = <<>> /\ faculty_data = <<>> /\ pc = "idle" /\ loop_i = 0
    /\ results = <<>> /\ manual_id = <<>>
    /\ updated_count = 0 /\ skipped_count = 0 /\ skipped_recent = 0 /\ error_count = 0
    /\ still_missing = <<>> /\ ambiguous_results = <<>> /\ first_query = TRUE
    /\ today = <<>>
    /\ events = <<>> /\ lookup = <<>> /\ accept_log = <<>>
    /\ updated_data = [none |-> TRUE, list |-> <<>>]
    /\ exit_status = "idle"

FlowIdle == RunIdle /\ clock = [year |-> 1, month |-> 1, day |-> 1]

ExtractIdle ==
    /\ paragraphs = <<>> /\ para_i = 0 /\ current_faculty = <<>> /\ faculty_list = <<>>
    /\ csv_out = <<>> /\ ex_pc = "idle"

DateIdle ==
    /\ nu_date = <<>> /\ nu_delay = 0 /\ nu_now = [year |-> 1, month |-> 1, day |-> 1]
    /\ nu_result = FALSE /\ nu_pc = "idle"

---------------------------------------------------------------------------
(* Characters and elementary string operations (Python str methods).       *)
(* A text is a sequence of characters. A printable ASCII character and each *)
(* of \t \n \r \f is written as itself; every other character, and the     *)
(* grave accent, which no string of a module can hold, is written as U+ and *)
(* the hexadecimal digits of its code point, four of them or as many as it  *)
(* takes: "U+00E9" is e with acute accent, "U+0142" l with stroke, "U+00A0" *)
(* the no-break space, "U+000B" the vertical tab, "U+0060" the grave        *)
(* accent, "U+1D7CE" the mathematical bold digit zero. The str patterns of  *)
(* the re module and the str methods work on Unicode: \w, \s and \d are the *)
(* Unicode classes, lower() and re.IGNORECASE the Unicode case mappings.    *)
(* The classes and the mappings are those of every code point, taken from   *)
(* the Unicode database of the interpreter (14.0.0 for Python 3.11).        *)

LowerSeq == <<"a","b","c","d","e","f","g","h","i","j","k","l","m",
              "n","o","p","q","r","s","t","u","v","w","x","y","z">>
UpperSeq == <<"A","B","C","D","E","F","G","H","I","J","K","L","M",
              "N","O","P","Q","R","S","T","U","V","W","X","Y","Z">>
DigitSeq == <<"0","1","2","3","4","5","6","7","8","9">>

Range(s) == {s[k] : k \in 1..Len(s)}

SetMin(S) == CHOOSE x \in S : \A y \in S : x <= y

SetMax(S) == CHOOSE x \in S : \A y \in S : y <= x

HexDigitSeq == <<"0","1","2","3","4","5","6","7","8","9","A","B","C","D","E","F">>

\* the number a text of hexadecimal digits stands for
RECURSIVE HexNumber(_)
HexNumber(t) ==
    IF t = "" THEN 0
    ELSE 16 * HexNumber(SubSeq(t, 1, Len(t) - 1))
         + (CHOOSE k \in 1..16 : HexDigitSeq[k] = SubSeq(t, Len(t), Len(t))) - 1

\* the hexadecimal digits of n, at least width of them
RECURSIVE HexText(_, _)
HexText(n, width) ==
    IF n = 0 /\ width <= 0 THEN ""
    ELSE HexText(n \div 16, width - 1) \o HexDigitSeq[(n % 16) + 1]

\* the characters of the code points 32 to 126, in order
AsciiSeq ==
    <<" ","!","\"","#","$","%","&","'","(",")","*","+",",","-",".","/",
      "0","1","2","3","4","5","6","7","8","9",":",";","<","=",">","?",
      "@","A","B","C","D","E","F","G","H","I","J","K","L","M","N","O",
      "P","Q","R","S","T","U","V","W","X","Y","Z","[","\\","]","^","_",
      "U+0060","a","b","c","d","e","f","g","h","i","j","k","l","m","n","o",
      "p","q","r","s","t","u","v","w","x","y","z","{","|","}","~">>

\* ord(c): the code point of a character
ord(c) ==
    IF Len(c) > 1 THEN HexNumber(SubSeq(c, 3, Len(c)))
    ELSE IF c = "\t" THEN 9
    ELSE IF c = "\n" THEN 10
    ELSE IF c = "\f" THEN 12
    ELSE IF c = "\r" THEN 13
    ELSE 31 + CHOOSE k \in 1..Len(AsciiSeq) : AsciiSeq[k] = c

\* chr(n): the character of a code point
chr(n) ==
    IF n = 9 THEN "\t"
    ELSE IF n = 10 THEN "\n"
    ELSE IF n = 12 THEN "\f"
    ELSE IF n = 13 THEN "\r"
    ELSE IF n >= 32 /\ n <= 126 THEN AsciiSeq[n - 31]
    ELSE "U+" \o HexText(n, 4)

\* n lies in one of the ranges <<first, last>>
InRanges(n, ranges) == \E r \in ranges : r[1] <= n /\ n <= r[2]

\* str.isalnum(): the ranges <<first, last>> of the code points of the
\* letters and of the characters with a numeric value (Unicode 14.0.0, the
\* database of Python 3.11)
AlnumRanges ==
    { <<\h0030, \h0039>>, <<\h0041, \h005A>>, <<\h0061, \h007A>>, <<\h00AA, \h00AA>>, <<\h00B2, \h00B3>>,
      <<\h00B5, \h00B5>>, <<\h00B9, \h00BA>>, <<\h00BC, \h00BE>>, <<\h00C0, \h00D6>>, <<\h00D8, \h00F6>>,
      <<\h00F8, \h02C1>>, <<\h02C6, \h02D1>>, <<\h02E0, \h02E4>>, <<\h02EC, \h02EC>>, <<\h02EE, \h02EE>>,
      <<\h0370, \h0374>>, <<\h0376, \h0377>>, <<\h037A, \h037D>>, <<\h037F, \h037F>>, <<\h0386, \h0386>>,
      <<\h0388, \h038A>>, <<\h038C, \h038C>>, <<\h038E, \h03A1>>, <<\h03A3, \h03F5>>, <<\h03F7, \h0481>>,
      <<\h048A, \h052F>>, <<\h0531, \h0556>>, <<\h0559, \h0559>>, <<\h0560, \h0588>>, <<\h05D0, \h05EA>>,
      <<\h05EF, \h05F2>>, <<\h0620, \h064A>>, <<\h0660, \h0669>>, <<\h066E, \h066F>>, <<\h0671, \h06D3>>,
      <<\h06D5, \h06D5>>, <<\h06E5, \h06E6>>, <<\h06EE, \h06FC>>, <<\h06FF, \h06FF>>, <<\h0710, \h0710>>,
      <<\h0712, \h072F>>, <<\h074D, \h07A5>>, <<\h07B1, \h07B1>>, <<\h07C0, \h07EA>>, <<\h07F4, \h07F5>>,
      <<\h07FA, \h07FA>>, <<\h0800, \h0815>>, <<\h081A, \h081A>>, <<\h0824, \h0824>>, <<\h0828, \h0828>>,
      <<\h0840, \h0858>>, <<\h0860, \h086A>>, <<\h0870, \h0887>>, <<\h0889, \h088E>>, <<\h08A0, \h08C9>>,
      <<\h0904, \h0939>>, <<\h093D, \h093D>>, <<\h0950, \h0950>>, <<\h0958, \h0961>>, <<\h0966, \h096F>>,
      <<\h0971, \h0980>>, <<\h0985, \h098C>>, <<\h098F, \h0990>>, <<\h0993, \h09A8>>, <<\h09AA, \h09B0>>,
      <<\h09B2, \h09B2>>, <<\h09B6, \h09B9>>, <<\h09BD, \h09BD>>, <<\h09CE, \h09CE>>, <<\h09DC, \h09DD>>,
      <<\h09DF, \h09E1>>, <<\h09E6, \h09F1>>, <<\h09F4, \h09F9>>, <<\h09FC, \h09FC>>, <<\h0A05, \h0A0A>>,
      <<\h0A0F, \h0A10>>, <<\h0A13, \h0A28>>, <<\h0A2A, \h0A30>>, <<\h0A32, \h0A33>>, <<\h0A35, \h0A36>>,
      <<\h0A38, \h0A39>>, <<\h0A59, \h0A5C>>, <<\h0A5E, \h0A5E>>, <<\h0A66, \h0A6F>>, <<\h0A72, \h0A74>>,
      <<\h0A85, \h0A8D>>, <<\h0A8F, \h0A91>>, <<\h0A93, \h0AA8>>, <<\h0AAA, \h0AB0>>, <<\h0AB2, \h0AB3>>,
      <<\h0AB5, \h0AB9>>, <<\h0ABD, \h0ABD>>, <<\h0AD0, \h0AD0>>, <<\h0AE0, \h0AE1>>, <<\h0AE6, \h0AEF>>,
      <<\h0AF9, \h0AF9>>, <<\h0B05, \h0B0C>>, <<\h0B0F, \h0B10>>, <<\h0B13, \h0B28>>, <<\h0B2A, \h0B30>>,
      <<\h0B32, \h0B33>>, <<\h0B35, \h0B39>>, <<\h0B3D, \h0B3D>>, <<\h0B5C, \h0B5D>>, <<\h0B5F, \h0B61>>,
      <<\h0B66, \h0B6F>>, <<\h0B71, \h0B77>>, <<\h0B83, \h0B83>>, <<\h0B85, \h0B8A>>, <<\h0B8E, \h0B90>>,
      <<\h0B92, \h0B95>>, <<\h0B99, \h0B9A>>, <<\h0B9C, \h0B9C>>, <<\h0B9E, \h0B9F>>, <<\h0BA3, \h0BA4>>,
      <<\h0BA8, \h0BAA>>, <<\h0BAE, \h0BB9>>, <<\h0BD0, \h0BD0>>, <<\h0BE6, \h0BF2>>, <<\h0C05, \h0C0C>>,
      <<\h0C0E, \h0C10>>, <<\h0C12, \h0C28>>, <<\h0C2A, \h0C39>>, <<\h0C3D, \h0C3D>>, <<\h0C58, \h0C5A>>,
      <<\h0C5D, \h0C5D>>, <<\h0C60, \h0C61>>, <<\h0C66, \h0C6F>>, <<\h0C78, \h0C7E>>, <<\h0C80, \h0C80>>,
      <<\h0C85, \h0C8C>>, <<\h0C8E, \h0C90>>, <<\h0C92, \h0CA8>>, <<\h0CAA, \h0CB3>>, <<\h0CB5, \h0CB9>>,
      <<\h0CBD, \h0CBD>>, <<\h0CDD, \h0CDE>>, <<\h0CE0, \h0CE1>>, <<\h0CE6, \h0CEF>>, <<\h0CF1, \h0CF2>>,
      <<\h0D04, \h0D0C>>, <<\h0D0E, \h0D10>>, <<\h0D12, \h0D3A>>, <<\h0D3D, \h0D3D>>, <<\h0D4E, \h0D4E>>,
      <<\h0D54, \h0D56>>, <<\h0D58, \h0D61>>, <<\h0D66, \h0D78>>, <<\h0D7A, \h0D7F>>, <<\h0D85, \h0D96>>,
      <<\h0D9A, \h0DB1>>, <<\h0DB3, \h0DBB>>, <<\h0DBD, \h0DBD>>, <<\h0DC0, \h0DC6>>, <<\h0DE6, \h0DEF>>,
      <<\h0E01, \h0E30>>, <<\h0E32, \h0E33>>, <<\h0E40, \h0E46>>, <<\h0E50, \h0E59>>, <<\h0E81, \h0E82>>,
      <<\h0E84, \h0E84>>, <<\h0E86, \h0E8A>>, <<\h0E8C, \h0EA3>>, <<\h0EA5, \h0EA5>>, <<\h0EA7, \h0EB0>>,
      <<\h0EB2, \h0EB3>>, <<\h0EBD, \h0EBD>>, <<\h0EC0, \h0EC4>>, <<\h0EC6, \h0EC6>>, <<\h0ED0, \h0ED9>>,
      <<\h0EDC, \h0EDF>>, <<\h0F00, \h0F00>>, <<\h0F20, \h0F33>>, <<\h0F40, \h0F47>>, <<\h0F49, \h0F6C>>,
      <<\h0F88, \h0F8C>>, <<\h1000, \h102A>>, <<\h103F, \h1049>>, <<\h1050, \h1055>>, <<\h105A, \h105D>>,
      <<\h1061, \h1061>>, <<\h1065, \h1066>>, <<\h106E, \h1070>>, <<\h1075, \h1081>>, <<\h108E, \h108E>>,
      <<\h1090, \h1099>>, <<\h10A0, \h10C5>>, <<\h10C7, \h10C7>>, <<\h10CD, \h10CD>>, <<\h10D0, \h10FA>>,
      <<\h10FC, \h1248>>, <<\h124A, \h124D>>, <<\h1250, \h1256>>, <<\h1258, \h1258>>, <<\h125A, \h125D>>,
      <<\h1260, \h1288>>, <<\h128A, \h128D>>, <<\h1290, \h12B0>>, <<\h12B2, \h12B5>>, <<\h12B8, \h12BE>>,
      <<\h12C0, \h12C0>>, <<\h12C2, \h12C5>>, <<\h12C8, \h12D6>>, <<\h12D8, \h1310>>, <<\h1312, \h1315>>,
      <<\h1318, \h135A>>, <<\h1369, \h137C>>, <<\h1380, \h138F>>, <<\h13A0, \h13F5>>, <<\h13F8, \h13FD>>,
      <<\h1401, \h166C>>, <<\h166F, \h167F>>, <<\h1681, \h169A>>, <<\h16A0, \h16EA>>, <<\h16EE, \h16F8>>,
      <<\h1700, \h1711>>, <<\h171F, \h1731>>, <<\h1740, \h1751>>, <<\h1760, \h176C>>, <<\h176E, \h1770>>,
      <<\h1780, \h17B3>>, <<\h17D7, \h17D7>>, <<\h17DC, \h17DC>>, <<\h17E0, \h17E9>>, <<\h17F0, \h17F9>>,
      <<\h1810, \h1819>>, <<\h1820, \h1878>>, <<\h1880, \h1884>>, <<\h1887, \h18A8>>, <<\h18AA, \h18AA>>,
      <<\h18B0, \h18F5>>, <<\h1900, \h191E>>, <<\h1946, \h196D>>, <<\h1970, \h1974>>, <<\h1980, \h19AB>>,
      <<\h19B0, \h19C9>>, <<\h19D0, \h19DA>>, <<\h1A00, \h1A16>>, <<\h1A20, \h1A54>>, <<\h1A80, \h1A89>>,
      <<\h1A90, \h1A99>>, <<\h1AA7, \h1AA7>>, <<\h1B05, \h1B33>>, <<\h1B45, \h1B4C>>, <<\h1B50, \h1B59>>,
      <<\h1B83, \h1BA0>>, <<\h1BAE, \h1BE5>>, <<\h1C00, \h1C23>>, <<\h1C40, \h1C49>>, <<\h1C4D, \h1C7D>>,
      <<\h1C80, \h1C88>>, <<\h1C90, \h1CBA>>, <<\h1CBD, \h1CBF>>, <<\h1CE9, \h1CEC>>, <<\h1CEE, \h1CF3>>,
      <<\h1CF5, \h1CF6>>, <<\h1CFA, \h1CFA>>, <<\h1D00, \h1DBF>>, <<\h1E00, \h1F15>>, <<\h1F18, \h1F1D>>,
      <<\h1F20, \h1F45>>, <<\h1F48, \h1F4D>>, <<\h1F50, \h1F57>>, <<\h1F59, \h1F59>>, <<\h1F5B, \h1F5B>>,
      <<\h1F5D, \h1F5D>>, <<\h1F5F, \h1F7D>>, <<\h1F80, \h1FB4>>, <<\h1FB6, \h1FBC>>, <<\h1FBE, \h1FBE>>,
      <<\h1FC2, \h1FC4>>, <<\h1FC6, \h1FCC>>, <<\h1FD0, \h1FD3>>, <<\h1FD6, \h1FDB>>, <<\h1FE0, \h1FEC>>,
      <<\h1FF2, \h1FF4>>, <<\h1FF6, \h1FFC>>, <<\h2070, \h2071>>, <<\h2074, \h2079>>, <<\h207F, \h2089>>,
      <<\h2090, \h209C>>, <<\h2102, \h2102>>, <<\h2107, \h2107>>, <<\h210A, \h2113>>, <<\h2115, \h2115>>,
      <<\h2119, \h211D>>, <<\h2124, \h2124>>, <<\h2126, \h2126>>, <<\h2128, \h2128>>, <<\h212A, \h212D>>,
      <<\h212F, \h2139>>, <<\h213C, \h213F>>, <<\h2145, \h2149>>, <<\h214E, \h214E>>, <<\h2150, \h2189>>,
      <<\h2460, \h249B>>, <<\h24EA, \h24FF>>, <<\h2776, \h2793>>, <<\h2C00, \h2CE4>>, <<\h2CEB, \h2CEE>>,
      <<\h2CF2, \h2CF3>>, <<\h2CFD, \h2CFD>>, <<\h2D00, \h2D25>>, <<\h2D27, \h2D27>>, <<\h2D2D, \h2D2D>>,
      <<\h2D30, \h2D67>>, <<\h2D6F, \h2D6F>>, <<\h2D80, \h2D96>>, <<\h2DA0, \h2DA6>>, <<\h2DA8, \h2DAE>>,
      <<\h2DB0, \h2DB6>>, <<\h2DB8, \h2DBE>>, <<\h2DC0, \h2DC6>>, <<\h2DC8, \h2DCE>>, <<\h2DD0, \h2DD6>>,
      <<\h2DD8, \h2DDE>>, <<\h2E2F, \h2E2F>>, <<\h3005, \h3007>>, <<\h3021, \h3029>>, <<\h3031, \h3035>>,
      <<\h3038, \h303C>>, <<\h3041, \h3096>>, <<\h309D, \h309F>>, <<\h30A1, \h30FA>>, <<\h30FC, \h30FF>>,
      <<\h3105, \h312F>>, <<\h3131, \h318E>>, <<\h3192, \h3195>>, <<\h31A0, \h31BF>>, <<\h31F0, \h31FF>>,
      <<\h3220, \h3229>>, <<\h3248, \h324F>>, <<\h3251, \h325F>>, <<\h3280, \h3289>>, <<\h32B1, \h32BF>>,
      <<\h3400, \h4DBF>>, <<\h4E00, \hA48C>>, <<\hA4D0, \hA4FD>>, <<\hA500, \hA60C>>, <<\hA610, \hA62B>>,
      <<\hA640, \hA66E>>, <<\hA67F, \hA69D>>, <<\hA6A0, \hA6EF>>, <<\hA717, \hA71F>>, <<\hA722, \hA788>>,
      <<\hA78B, \hA7CA>>, <<\hA7D0, \hA7D1>>, <<\hA7D3, \hA7D3>>, <<\hA7D5, \hA7D9>>, <<\hA7F2, \hA801>>,
      <<\hA803, \hA805>>, <<\hA807, \hA80A>>, <<\hA80C, \hA822>>, <<\hA830, \hA835>>, <<\hA840, \hA873>>,
      <<\hA882, \hA8B3>>, <<\hA8D0, \hA8D9>>, <<\hA8F2, \hA8F7>>, <<\hA8FB, \hA8FB>>, <<\hA8FD, \hA8FE>>,
      <<\hA900, \hA925>>, <<\hA930, \hA946>>, <<\hA960, \hA97C>>, <<\hA984, \hA9B2>>, <<\hA9CF, \hA9D9>>,
      <<\hA9E0, \hA9E4>>, <<\hA9E6, \hA9FE>>, <<\hAA00, \hAA28>>, <<\hAA40, \hAA42>>, <<\hAA44, \hAA4B>>,
      <<\hAA50, \hAA59>>, <<\hAA60, \hAA76>>, <<\hAA7A, \hAA7A>>, <<\hAA7E, \hAAAF>>, <<\hAAB1, \hAAB1>>,
      <<\hAAB5, \hAAB6>>, <<\hAAB9, \hAABD>>, <<\hAAC0, \hAAC0>>, <<\hAAC2, \hAAC2>>, <<\hAADB, \hAADD>>,
      <<\hAAE0, \hAAEA>>, <<\hAAF2, \hAAF4>>, <<\hAB01, \hAB06>>, <<\hAB09, \hAB0E>>, <<\hAB11, \hAB16>>,
      <<\hAB20, \hAB26>>, <<\hAB28, \hAB2E>>, <<\hAB30, \hAB5A>>, <<\hAB5C, \hAB69>>, <<\hAB70, \hABE2>>,
      <<\hABF0, \hABF9>>, <<\hAC00, \hD7A3>>, <<\hD7B0, \hD7C6>>, <<\hD7CB, \hD7FB>>, <<\hF900, \hFA6D>>,
      <<\hFA70, \hFAD9>>, <<\hFB00, \hFB06>>, <<\hFB13, \hFB17>>, <<\hFB1D, \hFB1D>>, <<\hFB1F, \hFB28>>,
      <<\hFB2A, \hFB36>>, <<\hFB38, \hFB3C>>, <<\hFB3E, \hFB3E>>, <<\hFB40, \hFB41>>, <<\hFB43, \hFB44>>,
      <<\hFB46, \hFBB1>>, <<\hFBD3, \hFD3D>>, <<\hFD50, \hFD8F>>, <<\hFD92, \hFDC7>>, <<\hFDF0, \hFDFB>>,
      <<\hFE70, \hFE74>>, <<\hFE76, \hFEFC>>, <<\hFF10, \hFF19>>, <<\hFF21, \hFF3A>>, <<\hFF41, \hFF5A>>,
      <<\hFF66, \hFFBE>>, <<\hFFC2, \hFFC7>>, <<\hFFCA, \hFFCF>>, <<\hFFD2, \hFFD7>>, <<\hFFDA, \hFFDC>>,
      <<\h10000, \h1000B>>, <<\h1000D, \h10026>>, <<\h10028, \h1003A>>, <<\h1003C, \h1003D>>, <<\h1003F, \h1004D>>,
      <<\h10050, \h1005D>>, <<\h10080, \h100FA>>, <<\h10107, \h10133>>, <<\h10140, \h10178>>, <<\h1018A, \h1018B>>,
      <<\h10280, \h1029C>>, <<\h102A0, \h102D0>>, <<\h102E1, \h102FB>>, <<\h10300, \h10323>>, <<\h1032D, \h1034A>>,
      <<\h10350, \h10375>>, <<\h10380, \h1039D>>, <<\h103A0, \h103C3>>, <<\h103C8, \h103CF>>, <<\h103D1, \h103D5>>,
      <<\h10400, \h1049D>>, <<\h104A0, \h104A9>>, <<\h104B0, \h104D3>>, <<\h104D8, \h104FB>>, <<\h10500, \h10527>>,
      <<\h10530, \h10563>>, <<\h10570, \h1057A>>, <<\h1057C, \h1058A>>, <<\h1058C, \h10592>>, <<\h10594, \h10595>>,
      <<\h10597, \h105A1>>, <<\h105A3, \h105B1>>, <<\h105B3, \h105B9>>, <<\h105BB, \h105BC>>, <<\h10600, \h10736>>,
      <<\h10740, \h10755>>, <<\h10760, \h10767>>, <<\h10780, \h10785>>, <<\h10787, \h107B0>>, <<\h107B2, \h107BA>>,
      <<\h10800, \h10805>>, <<\h10808, \h10808>>, <<\h1080A, \h10835>>, <<\h10837, \h10838>>, <<\h1083C, \h1083C>>,
      <<\h1083F, \h10855>>, <<\h10858, \h10876>>, <<\h10879, \h1089E>>, <<\h108A7, \h108AF>>, <<\h108E0, \h108F2>>,
      <<\h108F4, \h108F5>>, <<\h108FB, \h1091B>>, <<\h10920, \h10939>>, <<\h10980, \h109B7>>, <<\h109BC, \h109CF>>,
      <<\h109D2, \h10A00>>, <<\h10A10, \h10A13>>, <<\h10A15, \h10A17>>, <<\h10A19, \h10A35>>, <<\h10A40, \h10A48>>,
      <<\h10A60, \h10A7E>>, <<\h10A80, \h10A9F>>, <<\h10AC0, \h10AC7>>, <<\h10AC9, \h10AE4>>, <<\h10AEB, \h10AEF>>,
      <<\h10B00, \h10B35>>, <<\h10B40, \h10B55>>, <<\h10B58, \h10B72>>, <<\h10B78, \h10B91>>, <<\h10BA9, \h10BAF>>,
      <<\h10C00, \h10C48>>, <<\h10C80, \h10CB2>>, <<\h10CC0, \h10CF2>>, <<\h10CFA, \h10D23>>, <<\h10D30, \h10D39>>,
      <<\h10E60, \h10E7E>>, <<\h10E80, \h10EA9>>, <<\h10EB0, \h10EB1>>, <<\h10F00, \h10F27>>, <<\h10F30, \h10F45>>,
      <<\h10F51, \h10F54>>, <<\h10F70, \h10F81>>, <<\h10FB0, \h10FCB>>, <<\h10FE0, \h10FF6>>, <<\h11003, \h11037>>,
      <<\h11052, \h1106F>>, <<\h11071, \h11072>>, <<\h11075, \h11075>>, <<\h11083, \h110AF>>, <<\h110D0, \h110E8>>,
      <<\h110F0, \h110F9>>, <<\h11103, \h11126>>, <<\h11136, \h1113F>>, <<\h11144, \h11144>>, <<\h11147, \h11147>>,
      <<\h11150, \h11172>>, <<\h11176, \h11176>>, <<\h11183, \h111B2>>, <<\h111C1, \h111C4>>, <<\h111D0, \h111DA>>,
      <<\h111DC, \h111DC>>, <<\h111E1, \h111F4>>, <<\h11200, \h11211>>, <<\h11213, \h1122B>>, <<\h11280, \h11286>>,
      <<\h11288, \h11288>>, <<\h1128A, \h1128D>>, <<\h1128F, \h1129D>>, <<\h1129F, \h112A8>>, <<\h112B0, \h112DE>>,
      <<\h112F0, \h112F9>>, <<\h11305, \h1130C>>, <<\h1130F, \h11310>>, <<\h11313, \h11328>>, <<\h1132A, \h11330>>,
      <<\h11332, \h11333>>, <<\h11335, \h11339>>, <<\h1133D, \h1133D>>, <<\h11350, \h11350>>, <<\h1135D, \h11361>>,
      <<\h11400, \h11434>>, <<\h11447, \h1144A>>, <<\h11450, \h11459>>, <<\h1145F, \h11461>>, <<\h11480, \h114AF>>,
      <<\h114C4, \h114C5>>, <<\h114C7, \h114C7>>, <<\h114D0, \h114D9>>, <<\h11580, \h115AE>>, <<\h115D8, \h115DB>>,
      <<\h11600, \h1162F>>, <<\h11644, \h11644>>, <<\h11650, \h11659>>, <<\h11680, \h116AA>>, <<\h116B8, \h116B8>>,
      <<\h116C0, \h116C9>>, <<\h11700, \h1171A>>, <<\h11730, \h1173B>>, <<\h11740, \h11746>>, <<\h11800, \h1182B>>,
      <<\h118A0, \h118F2>>, <<\h118FF, \h11906>>, <<\h11909, \h11909>>, <<\h1190C, \h11913>>, <<\h11915, \h11916>>,
      <<\h11918, \h1192F>>, <<\h1193F, \h1193F>>, <<\h11941, \h11941>>, <<\h11950, \h11959>>, <<\h119A0, \h119A7>>,
      <<\h119AA, \h119D0>>, <<\h119E1, \h119E1>>, <<\h119E3, \h119E3>>, <<\h11A00, \h11A00>>, <<\h11A0B, \h11A32>>,
      <<\h11A3A, \h11A3A>>, <<\h11A50, \h11A50>>, <<\h11A5C, \h11A89>>, <<\h11A9D, \h11A9D>>, <<\h11AB0, \h11AF8>>,
      <<\h11C00, \h11C08>>, <<\h11C0A, \h11C2E>>, <<\h11C40, \h11C40>>, <<\h11C50, \h11C6C>>, <<\h11C72, \h11C8F>>,
      <<\h11D00, \h11D06>>, <<\h11D08, \h11D09>>, <<\h11D0B, \h11D30>>, <<\h11D46, \h11D46>>, <<\h11D50, \h11D59>>,
      <<\h11D60, \h11D65>>, <<\h11D67, \h11D68>>, <<\h11D6A, \h11D89>>, <<\h11D98, \h11D98>>, <<\h11DA0, \h11DA9>>,
      <<\h11EE0, \h11EF2>>, <<\h11FB0, \h11FB0>>, <<\h11FC0, \h11FD4>>, <<\h12000, \h12399>>, <<\h12400, \h1246E>>,
      <<\h12480, \h12543>>, <<\h12F90, \h12FF0>>, <<\h13000, \h1342E>>, <<\h14400, \h14646>>, <<\h16800, \h16A38>>,
      <<\h16A40, \h16A5E>>, <<\h16A60, \h16A69>>, <<\h16A70, \h16ABE>>, <<\h16AC0, \h16AC9>>, <<\h16AD0, \h16AED>>,
      <<\h16B00, \h16B2F>>, <<\h16B40, \h16B43>>, <<\h16B50, \h16B59>>, <<\h16B5B, \h16B61>>, <<\h16B63, \h16B77>>,
      <<\h16B7D, \h16B8F>>, <<\h16E40, \h16E96>>, <<\h16F00, \h16F4A>>, <<\h16F50, \h16F50>>, <<\h16F93, \h16F9F>>,
      <<\h16FE0, \h16FE1>>, <<\h16FE3, \h16FE3>>, <<\h17000, \h187F7>>, <<\h18800, \h18CD5>>, <<\h18D00, \h18D08>>,
      <<\h1AFF0, \h1AFF3>>, <<\h1AFF5, \h1AFFB>>, <<\h1AFFD, \h1AFFE>>, <<\h1B000, \h1B122>>, <<\h1B150, \h1B152>>,
      <<\h1B164, \h1B167>>, <<\h1B170, \h1B2FB>>, <<\h1BC00, \h1BC6A>>, <<\h1BC70, \h1BC7C>>, <<\h1BC80, \h1BC88>>,
      <<\h1BC90, \h1BC99>>, <<\h1D2E0, \h1D2F3>>, <<\h1D360, \h1D378>>, <<\h1D400, \h1D454>>, <<\h1D456, \h1D49C>>,
      <<\h1D49E, \h1D49F>>, <<\h1D4A2, \h1D4A2>>, <<\h1D4A5, \h1D4A6>>, <<\h1D4A9, \h1D4AC>>, <<\h1D4AE, \h1D4B9>>,
      <<\h1D4BB, \h1D4BB>>, <<\h1D4BD, \h1D4C3>>, <<\h1D4C5, \h1D505>>, <<\h1D507, \h1D50A>>, <<\h1D50D, \h1D514>>,
      <<\h1D516, \h1D51C>>, <<\h1D51E, \h1D539>>, <<\h1D53B, \h1D53E>>, <<\h1D540, \h1D544>>, <<\h1D546, \h1D546>>,
      <<\h1D54A, \h1D550>>, <<\h1D552, \h1D6A5>>, <<\h1D6A8, \h1D6C0>>, <<\h1D6C2, \h1D6DA>>, <<\h1D6DC, \h1D6FA>>,
      <<\h1D6FC, \h1D714>>, <<\h1D716, \h1D734>>, <<\h1D736, \h1D74E>>, <<\h1D750, \h1D76E>>, <<\h1D770, \h1D788>>,
      <<\h1D78A, \h1D7A8>>, <<\h1D7AA, \h1D7C2>>, <<\h1D7C4, \h1D7CB>>, <<\h1D7CE, \h1D7FF>>, <<\h1DF00, \h1DF1E>>,
      <<\h1E100, \h1E12C>>, <<\h1E137, \h1E13D>>, <<\h1E140, \h1E149>>, <<\h1E14E, \h1E14E>>, <<\h1E290, \h1E2AD>>,
      <<\h1E2C0, \h1E2EB>>, <<\h1E2F0, \h1E2F9>>, <<\h1E7E0, \h1E7E6>>, <<\h1E7E8, \h1E7EB>>, <<\h1E7ED, \h1E7EE>>,
      <<\h1E7F0, \h1E7FE>>, <<\h1E800, \h1E8C4>>, <<\h1E8C7, \h1E8CF>>, <<\h1E900, \h1E943>>, <<\h1E94B, \h1E94B>>,
      <<\h1E950, \h1E959>>, <<\h1EC71, \h1ECAB>>, <<\h1ECAD, \h1ECAF>>, <<\h1ECB1, \h1ECB4>>, <<\h1ED01, \h1ED2D>>,
      <<\h1ED2F, \h1ED3D>>, <<\h1EE00, \h1EE03>>, <<\h1EE05, \h1EE1F>>, <<\h1EE21, \h1EE22>>, <<\h1EE24, \h1EE24>>,
      <<\h1EE27, \h1EE27>>, <<\h1EE29, \h1EE32>>, <<\h1EE34, \h1EE37>>, <<\h1EE39, \h1EE39>>, <<\h1EE3B, \h1EE3B>>,
      <<\h1EE42, \h1EE42>>, <<\h1EE47, \h1EE47>>, <<\h1EE49, \h1EE49>>, <<\h1EE4B, \h1EE4B>>, <<\h1EE4D, \h1EE4F>>,
      <<\h1EE51, \h1EE52>>, <<\h1EE54, \h1EE54>>, <<\h1EE57, \h1EE57>>, <<\h1EE59, \h1EE59>>, <<\h1EE5B, \h1EE5B>>,
      <<\h1EE5D, \h1EE5D>>, <<\h1EE5F, \h1EE5F>>, <<\h1EE61, \h1EE62>>, <<\h1EE64, \h1EE64>>, <<\h1EE67, \h1EE6A>>,
      <<\h1EE6C, \h1EE72>>, <<\h1EE74, \h1EE77>>, <<\h1EE79, \h1EE7C>>, <<\h1EE7E, \h1EE7E>>, <<\h1EE80, \h1EE89>>,
      <<\h1EE8B, \h1EE9B>>, <<\h1EEA1, \h1EEA3>>, <<\h1EEA5, \h1EEA9>>, <<\h1EEAB, \h1EEBB>>, <<\h1F100, \h1F10C>>,
      <<\h1FBF0, \h1FBF9>>, <<\h20000, \h2A6DF>>, <<\h2A700, \h2B738>>, <<\h2B740, \h2B81D>>, <<\h2B820, \h2CEA1>>,
      <<\h2CEB0, \h2EBE0>>, <<\h2F800, \h2FA1D>>, <<\h30000, \h3134A>> }

\* str.isalnum() on one character
isalnum(c) ==
    IF Len(c) = 1
    THEN c \in Range(LowerSeq) \cup Range(UpperSeq) \cup Range(DigitSeq)
    ELSE Len(c) > 1 /\ \E n \in {ord(c)} : InRanges(n, AlnumRanges)

\* \w of the re module in a str pattern: "_" and the characters for which
\* str.isalnum() holds
IsWordChar(c) == c = "_" \/ isalnum(c)

\* the characters for which str.isspace() holds, besides " " \t \n \r \f
UnicodeSpaces ==
    { "U+000B","U+001C","U+001D","U+001E","U+001F","U+0085","U+00A0","U+1680",
      "U+2000","U+2001","U+2002","U+2003","U+2004","U+2005","U+2006","U+2007",
      "U+2008","U+2009","U+200A","U+2028","U+2029","U+202F","U+205F","U+3000" }

\* \s of the re module in a str pattern, and the separators of str.split()
\* and str.strip(): the characters for which str.isspace() holds
IsSpace(c) == c \in {" ", "\t", "\n", "\r", "\f"} \cup UnicodeSpaces

\* str.isdecimal(), and \d in a str pattern: the code point of the digit zero
\* of every script; the digits one to nine follow it
DecimalDigitBlocks ==
    {\h0030, \h0660, \h06F0, \h07C0, \h0966, \h09E6, \h0A66, \h0AE6, \h0B66, \h0BE6,
      \h0C66, \h0CE6, \h0D66, \h0DE6, \h0E50, \h0ED0, \h0F20, \h1040, \h1090, \h17E0,
      \h1810, \h1946, \h19D0, \h1A80, \h1A90, \h1B50, \h1BB0, \h1C40, \h1C50, \hA620,
      \hA8D0, \hA900, \hA9D0, \hA9F0, \hAA50, \hABF0, \hFF10, \h104A0, \h10D30, \h11066,
      \h110F0, \h11136, \h111D0, \h112F0, \h11450, \h114D0, \h11650, \h116C0, \h11730, \h118E0,
      \h11950, \h11C50, \h11D50, \h11DA0, \h16A60, \h16AC0, \h16B50, \h1D7CE, \h1D7D8, \h1D7E2,
      \h1D7EC, \h1D7F6, \h1E140, \h1E2F0, \h1E950, \h1FBF0 }

\* str.isdecimal() on one character: a decimal digit of any script
isdecimal(c) ==
    IF Len(c) = 1 THEN c \in Range(DigitSeq)
    ELSE Len(c) > 1 /\ \E n \in {ord(c)} :
                          \E zero \in DecimalDigitBlocks : zero <= n /\ n <= zero + 9

\* str.isdigit(): the ranges of the code points of the decimal digits and of
\* the other characters that stand for a digit (superscripts, circled digits)
DigitRanges ==
    { <<\h0030, \h0039>>, <<\h00B2, \h00B3>>, <<\h00B9, \h00B9>>, <<\h0660, \h0669>>, <<\h06F0, \h06F9>>,
      <<\h07C0, \h07C9>>, <<\h0966, \h096F>>, <<\h09E6, \h09EF>>, <<\h0A66, \h0A6F>>, <<\h0AE6, \h0AEF>>,
      <<\h0B66, \h0B6F>>, <<\h0BE6, \h0BEF>>, <<\h0C66, \h0C6F>>, <<\h0CE6, \h0CEF>>, <<\h0D66, \h0D6F>>,
      <<\h0DE6, \h0DEF>>, <<\h0E50, \h0E59>>, <<\h0ED0, \h0ED9>>, <<\h0F20, \h0F29>>, <<\h1040, \h1049>>,
      <<\h1090, \h1099>>, <<\h1369, \h1371>>, <<\h17E0, \h17E9>>, <<\h1810, \h1819>>, <<\h1946, \h194F>>,
      <<\h19D0, \h19DA>>, <<\h1A80, \h1A89>>, <<\h1A90, \h1A99>>, <<\h1B50, \h1B59>>, <<\h1BB0, \h1BB9>>,
      <<\h1C40, \h1C49>>, <<\h1C50, \h1C59>>, <<\h2070, \h2070>>, <<\h2074, \h2079>>, <<\h2080, \h2089>>,
      <<\h2460, \h2468>>, <<\h2474, \h247C>>, <<\h2488, \h2490>>, <<\h24EA, \h24EA>>, <<\h24F5, \h24FD>>,
      <<\h24FF, \h24FF>>, <<\h2776, \h277E>>, <<\h2780, \h2788>>, <<\h278A, \h2792>>, <<\hA620, \hA629>>,
      <<\hA8D0, \hA8D9>>, <<\hA900, \hA909>>, <<\hA9D0, \hA9D9>>, <<\hA9F0, \hA9F9>>, <<\hAA50, \hAA59>>,
      <<\hABF0, \hABF9>>, <<\hFF10, \hFF19>>, <<\h104A0, \h104A9>>, <<\h10A40, \h10A43>>, <<\h10D30, \h10D39>>,
      <<\h10E60, \h10E68>>, <<\h11052, \h1105A>>, <<\h11066, \h1106F>>, <<\h110F0, \h110F9>>, <<\h11136, \h1113F>>,
      <<\h111D0, \h111D9>>, <<\h112F0, \h112F9>>, <<\h11450, \h11459>>, <<\h114D0, \h114D9>>, <<\h11650, \h11659>>,
      <<\h116C0, \h116C9>>, <<\h11730, \h11739>>, <<\h118E0, \h118E9>>, <<\h11950, \h11959>>, <<\h11C50, \h11C59>>,
      <<\h11D50, \h11D59>>, <<\h11DA0, \h11DA9>>, <<\h16A60, \h16A69>>, <<\h16AC0, \h16AC9>>, <<\h16B50, \h16B59>>,
      <<\h1D7CE, \h1D7FF>>, <<\h1E140, \h1E149>>, <<\h1E2F0, \h1E2F9>>, <<\h1E950, \h1E959>>, <<\h1F100, \h1F10A>>,
      <<\h1FBF0, \h1FBF9>> }

\* str.isdigit() on one character: a decimal digit or another character
\* that stands for a digit, such as a superscript or a circled digit
IsDigitChar(c) ==
    IF Len(c) = 1 THEN c \in Range(DigitSeq)
    ELSE Len(c) > 1 /\ \E n \in {ord(c)} : InRanges(n, DigitRanges)

\* the lower-case mapping of one code point to one code point:
\* <<first, last, step, delta>> maps first, first + step, ..., last to the
\* code point delta above it (below it when delta is negative)
LowerRuns ==
    { <<\h0041, \h005A, 1, \h0020>>, <<\h00C0, \h00D6, 1, \h0020>>, <<\h00D8, \h00DE, 1, \h0020>>,
      <<\h0100, \h012E, 2, \h0001>>, <<\h0132, \h0136, 2, \h0001>>, <<\h0139, \h0147, 2, \h0001>>,
      <<\h014A, \h0176, 2, \h0001>>, <<\h0178, \h0178, 1, -\h0079>>, <<\h0179, \h017D, 2, \h0001>>,
      <<\h0181, \h0181, 1, \h00D2>>, <<\h0182, \h0184, 2, \h0001>>, <<\h0186, \h0186, 1, \h00CE>>,
      <<\h0187, \h0187, 1, \h0001>>, <<\h0189, \h018A, 1, \h00CD>>, <<\h018B, \h018B, 1, \h0001>>,
      <<\h018E, \h018E, 1, \h004F>>, <<\h018F, \h018F, 1, \h00CA>>, <<\h0190, \h0190, 1, \h00CB>>,
      <<\h0191, \h0191, 1, \h0001>>, <<\h0193, \h0193, 1, \h00CD>>, <<\h0194, \h0194, 1, \h00CF>>,
      <<\h0196, \h0196, 1, \h00D3>>, <<\h0197, \h0197, 1, \h00D1>>, <<\h0198, \h0198, 1, \h0001>>,
      <<\h019C, \h019C, 1, \h00D3>>, <<\h019D, \h019D, 1, \h00D5>>, <<\h019F, \h019F, 1, \h00D6>>,
      <<\h01A0, \h01A4, 2, \h0001>>, <<\h01A6, \h01A6, 1, \h00DA>>, <<\h01A7, \h01A7, 1, \h0001>>,
      <<\h01A9, \h01A9, 1, \h00DA>>, <<\h01AC, \h01AC, 1, \h0001>>, <<\h01AE, \h01AE, 1, \h00DA>>,
      <<\h01AF, \h01AF, 1, \h0001>>, <<\h01B1, \h01B2, 1, \h00D9>>, <<\h01B3, \h01B5, 2, \h0001>>,
      <<\h01B7, \h01B7, 1, \h00DB>>, <<\h01B8, \h01B8, 1, \h0001>>, <<\h01BC, \h01BC, 1, \h0001>>,
      <<\h01C4, \h01C4, 1, \h0002>>, <<\h01C5, \h01C5, 1, \h0001>>, <<\h01C7, \h01C7, 1, \h0002>>,
      <<\h01C8, \h01C8, 1, \h0001>>, <<\h01CA, \h01CA, 1, \h0002>>, <<\h01CB, \h01DB, 2, \h0001>>,
      <<\h01DE, \h01EE, 2, \h0001>>, <<\h01F1, \h01F1, 1, \h0002>>, <<\h01F2, \h01F4, 2, \h0001>>,
      <<\h01F6, \h01F6, 1, -\h0061>>, <<\h01F7, \h01F7, 1, -\h0038>>, <<\h01F8, \h021E, 2, \h0001>>,
      <<\h0220, \h0220, 1, -\h0082>>, <<\h0222, \h0232, 2, \h0001>>, <<\h023A, \h023A, 1, \h2A2B>>,
      <<\h023B, \h023B, 1, \h0001>>, <<\h023D, \h023D, 1, -\h00A3>>, <<\h023E, \h023E, 1, \h2A28>>,
      <<\h0241, \h0241, 1, \h0001>>, <<\h0243, \h0243, 1, -\h00C3>>, <<\h0244, \h0244, 1, \h0045>>,
      <<\h0245, \h0245, 1, \h0047>>, <<\h0246, \h024E, 2, \h0001>>, <<\h0370, \h0372, 2, \h0001>>,
      <<\h0376, \h0376, 1, \h0001>>, <<\h037F, \h037F, 1, \h0074>>, <<\h0386, \h0386, 1, \h0026>>,
      <<\h0388, \h038A, 1, \h0025>>, <<\h038C, \h038C, 1, \h0040>>, <<\h038E, \h038F, 1, \h003F>>,
      <<\h0391, \h03A1, 1, \h0020>>, <<\h03A3, \h03AB, 1, \h0020>>, <<\h03CF, \h03CF, 1, \h0008>>,
      <<\h03D8, \h03EE, 2, \h0001>>, <<\h03F4, \h03F4, 1, -\h003C>>, <<\h03F7, \h03F7, 1, \h0001>>,
      <<\h03F9, \h03F9, 1, -\h0007>>, <<\h03FA, \h03FA, 1, \h0001>>, <<\h03FD, \h03FF, 1, -\h0082>>,
      <<\h0400, \h040F, 1, \h0050>>, <<\h0410, \h042F, 1, \h0020>>, <<\h0460, \h0480, 2, \h0001>>,
      <<\h048A, \h04BE, 2, \h0001>>, <<\h04C0, \h04C0, 1, \h000F>>, <<\h04C1, \h04CD, 2, \h0001>>,
      <<\h04D0, \h052E, 2, \h0001>>, <<\h0531, \h0556, 1, \h0030>>, <<\h10A0, \h10C5, 1, \h1C60>>,
      <<\h10C7, \h10C7, 1, \h1C60>>, <<\h10CD, \h10CD, 1, \h1C60>>, <<\h13A0, \h13EF, 1, \h97D0>>,
      <<\h13F0, \h13F5, 1, \h0008>>, <<\h1C90, \h1CBA, 1, -\h0BC0>>, <<\h1CBD, \h1CBF, 1, -\h0BC0>>,
      <<\h1E00, \h1E94, 2, \h0001>>, <<\h1E9E, \h1E9E, 1, -\h1DBF>>, <<\h1EA0, \h1EFE, 2, \h0001>>,
      <<\h1F08, \h1F0F, 1, -\h0008>>, <<\h1F18, \h1F1D, 1, -\h0008>>, <<\h1F28, \h1F2F, 1, -\h0008>>,
      <<\h1F38, \h1F3F, 1, -\h0008>>, <<\h1F48, \h1F4D, 1, -\h0008>>, <<\h1F59, \h1F5F, 2, -\h0008>>,
      <<\h1F68, \h1F6F, 1, -\h0008>>, <<\h1F88, \h1F8F, 1, -\h0008>>, <<\h1F98, \h1F9F, 1, -\h0008>>,
      <<\h1FA8, \h1FAF, 1, -\h0008>>, <<\h1FB8, \h1FB9, 1, -\h0008>>, <<\h1FBA, \h1FBB, 1, -\h004A>>,
      <<\h1FBC, \h1FBC, 1, -\h0009>>, <<\h1FC8, \h1FCB, 1, -\h0056>>, <<\h1FCC, \h1FCC, 1, -\h0009>>,
      <<\h1FD8, \h1FD9, 1, -\h0008>>, <<\h1FDA, \h1FDB, 1, -\h0064>>, <<\h1FE8, \h1FE9, 1, -\h0008>>,
      <<\h1FEA, \h1FEB, 1, -\h0070>>, <<\h1FEC, \h1FEC, 1, -\h0007>>, <<\h1FF8, \h1FF9, 1, -\h0080>>,
      <<\h1FFA, \h1FFB, 1, -\h007E>>, <<\h1FFC, \h1FFC, 1, -\h0009>>, <<\h2126, \h2126, 1, -\h1D5D>>,
      <<\h212A, \h212A, 1, -\h20BF>>, <<\h212B, \h212B, 1, -\h2046>>, <<\h2132, \h2132, 1, \h001C>>,
      <<\h2160, \h216F, 1, \h0010>>, <<\h2183, \h2183, 1, \h0001>>, <<\h24B6, \h24CF, 1, \h001A>>,
      <<\h2C00, \h2C2F, 1, \h0030>>, <<\h2C60, \h2C60, 1, \h0001>>, <<\h2C62, \h2C62, 1, -\h29F7>>,
      <<\h2C63, \h2C63, 1, -\h0EE6>>, <<\h2C64, \h2C64, 1, -\h29E7>>, <<\h2C67, \h2C6B, 2, \h0001>>,
      <<\h2C6D, \h2C6D, 1, -\h2A1C>>, <<\h2C6E, \h2C6E, 1, -\h29FD>>, <<\h2C6F, \h2C6F, 1, -\h2A1F>>,
      <<\h2C70, \h2C70, 1, -\h2A1E>>, <<\h2C72, \h2C72, 1, \h0001>>, <<\h2C75, \h2C75, 1, \h0001>>,
      <<\h2C7E, \h2C7F, 1, -\h2A3F>>, <<\h2C80, \h2CE2, 2, \h0001>>, <<\h2CEB, \h2CED, 2, \h0001>>,
      <<\h2CF2, \h2CF2, 1, \h0001>>, <<\hA640, \hA66C, 2, \h0001>>, <<\hA680, \hA69A, 2, \h0001>>,
      <<\hA722, \hA72E, 2, \h0001>>, <<\hA732, \hA76E, 2, \h0001>>, <<\hA779, \hA77B, 2, \h0001>>,
      <<\hA77D, \hA77D, 1, -\h8A04>>, <<\hA77E, \hA786, 2, \h0001>>, <<\hA78B, \hA78B, 1, \h0001>>,
      <<\hA78D, \hA78D, 1, -\hA528>>, <<\hA790, \hA792, 2, \h0001>>, <<\hA796, \hA7A8, 2, \h0001>>,
      <<\hA7AA, \hA7AA, 1, -\hA544>>, <<\hA7AB, \hA7AB, 1, -\hA54F>>, <<\hA7AC, \hA7AC, 1, -\hA54B>>,
      <<\hA7AD, \hA7AD, 1, -\hA541>>, <<\hA7AE, \hA7AE, 1, -\hA544>>, <<\hA7B0, \hA7B0, 1, -\hA512>>,
      <<\hA7B1, \hA7B1, 1, -\hA52A>>, <<\hA7B2, \hA7B2, 1, -\hA515>>, <<\hA7B3, \hA7B3, 1, \h03A0>>,
      <<\hA7B4, \hA7C2, 2, \h0001>>, <<\hA7C4, \hA7C4, 1, -\h0030>>, <<\hA7C5, \hA7C5, 1, -\hA543>>,
      <<\hA7C6, \hA7C6, 1, -\h8A38>>, <<\hA7C7, \hA7C9, 2, \h0001>>, <<\hA7D0, \hA7D0, 1, \h0001>>,
      <<\hA7D6, \hA7D8, 2, \h0001>>, <<\hA7F5, \hA7F5, 1, \h0001>>, <<\hFF21, \hFF3A, 1, \h0020>>,
      <<\h10400, \h10427, 1, \h0028>>, <<\h104B0, \h104D3, 1, \h0028>>, <<\h10570, \h1057A, 1, \h0027>>,
      <<\h1057C, \h1058A, 1, \h0027>>, <<\h1058C, \h10592, 1, \h0027>>, <<\h10594, \h10595, 1, \h0027>>,
      <<\h10C80, \h10CB2, 1, \h0040>>, <<\h118A0, \h118BF, 1, \h0020>>, <<\h16E40, \h16E5F, 1, \h0020>>,
      <<\h1E900, \h1E921, 1, \h0022>> }

\* the lower-case mapping of the code point n
tolower(n) ==
    CHOOSE m \in { IF on = {} THEN n ELSE n + (CHOOSE r \in on : TRUE)[4] :
                     on \in { { r \in LowerRuns : /\ r[1] <= n /\ n <= r[2]
                                                  /\ (n - r[1]) % r[3] = 0 } } } : TRUE

\* capital I with dot above, dotless i, long s and the Kelvin sign: the
\* letters beyond ASCII that re.IGNORECASE takes for "i", "s" and "k"
I_with_dot == "U+0130"
Dotless_i == "U+0131"
Long_s == "U+017F"
Kelvin_sign == "U+212A"

\* the combining dot above
Combining_dot == "U+0307"

\* the Greek capital sigma and its two small forms
Capital_sigma == "U+03A3"
Small_sigma == "U+03C3"
Final_small_sigma == "U+03C2"

\* str.lower() on a text of one character: a text of one character, and of
\* two for capital I with dot above, the one character with a lower-case
\* mapping of more than one
ToLowerChar(c) ==
    IF c \in Range(UpperSeq)
    THEN << LowerSeq[CHOOSE k \in 1..Len(UpperSeq) : UpperSeq[k] = c] >>
    ELSE IF Len(c) = 1 THEN << c >>
    ELSE IF c = I_with_dot THEN << "i", Combining_dot >>
    ELSE CHOOSE t \in { << chr(tolower(n)) >> : n \in {ord(c)} } : TRUE

\* the cased characters: lower-case, upper-case and title-case letters
CasedRanges ==
    { <<\h0041, \h005A>>, <<\h0061, \h007A>>, <<\h00AA, \h00AA>>, <<\h00B5, \h00B5>>, <<\h00BA, \h00BA>>,
      <<\h00C0, \h00D6>>, <<\h00D8, \h00F6>>, <<\h00F8, \h01BA>>, <<\h01BC, \h01BF>>, <<\h01C4, \h0293>>,
      <<\h0295, \h02B8>>, <<\h02C0, \h02C1>>, <<\h02E0, \h02E4>>, <<\h0345, \h0345>>, <<\h0370, \h0373>>,
      <<\h0376, \h0377>>, <<\h037A, \h037D>>, <<\h037F, \h037F>>, <<\h0386, \h0386>>, <<\h0388, \h038A>>,
      <<\h038C, \h038C>>, <<\h038E, \h03A1>>, <<\h03A3, \h03F5>>, <<\h03F7, \h0481>>, <<\h048A, \h052F>>,
      <<\h0531, \h0556>>, <<\h0560, \h0588>>, <<\h10A0, \h10C5>>, <<\h10C7, \h10C7>>, <<\h10CD, \h10CD>>,
      <<\h10D0, \h10FA>>, <<\h10FD, \h10FF>>, <<\h13A0, \h13F5>>, <<\h13F8, \h13FD>>, <<\h1C80, \h1C88>>,
      <<\h1C90, \h1CBA>>, <<\h1CBD, \h1CBF>>, <<\h1D00, \h1DBF>>, <<\h1E00, \h1F15>>, <<\h1F18, \h1F1D>>,
      <<\h1F20, \h1F45>>, <<\h1F48, \h1F4D>>, <<\h1F50, \h1F57>>, <<\h1F59, \h1F59>>, <<\h1F5B, \h1F5B>>,
      <<\h1F5D, \h1F5D>>, <<\h1F5F, \h1F7D>>, <<\h1F80, \h1FB4>>, <<\h1FB6, \h1FBC>>, <<\h1FBE, \h1FBE>>,
      <<\h1FC2, \h1FC4>>, <<\h1FC6, \h1FCC>>, <<\h1FD0, \h1FD3>>, <<\h1FD6, \h1FDB>>, <<\h1FE0, \h1FEC>>,
      <<\h1FF2, \h1FF4>>, <<\h1FF6, \h1FFC>>, <<\h2071, \h2071>>, <<\h207F, \h207F>>, <<\h2090, \h209C>>,
      <<\h2102, \h2102>>, <<\h2107, \h2107>>, <<\h210A, \h2113>>, <<\h2115, \h2115>>, <<\h2119, \h211D>>,
      <<\h2124, \h2124>>, <<\h2126, \h2126>>, <<\h2128, \h2128>>, <<\h212A, \h212D>>, <<\h212F, \h2134>>,
      <<\h2139, \h2139>>, <<\h213C, \h213F>>, <<\h2145, \h2149>>, <<\h214E, \h214E>>, <<\h2160, \h217F>>,
      <<\h2183, \h2184>>, <<\h24B6, \h24E9>>, <<\h2C00, \h2CE4>>, <<\h2CEB, \h2CEE>>, <<\h2CF2, \h2CF3>>,
      <<\h2D00, \h2D25>>, <<\h2D27, \h2D27>>, <<\h2D2D, \h2D2D>>, <<\hA640, \hA66D>>, <<\hA680, \hA69D>>,
      <<\hA722, \hA787>>, <<\hA78B, \hA78E>>, <<\hA790, \hA7CA>>, <<\hA7D0, \hA7D1>>, <<\hA7D3, \hA7D3>>,
      <<\hA7D5, \hA7D9>>, <<\hA7F5, \hA7F6>>, <<\hA7F8, \hA7FA>>, <<\hAB30, \hAB5A>>, <<\hAB5C, \hAB68>>,
      <<\hAB70, \hABBF>>, <<\hFB00, \hFB06>>, <<\hFB13, \hFB17>>, <<\hFF21, \hFF3A>>, <<\hFF41, \hFF5A>>,
      <<\h10400, \h1044F>>, <<\h104B0, \h104D3>>, <<\h104D8, \h104FB>>, <<\h10570, \h1057A>>, <<\h1057C, \h1058A>>,
      <<\h1058C, \h10592>>, <<\h10594, \h10595>>, <<\h10597, \h105A1>>, <<\h105A3, \h105B1>>, <<\h105B3, \h105B9>>,
      <<\h105BB, \h105BC>>, <<\h10780, \h10780>>, <<\h10783, \h10785>>, <<\h10787, \h107B0>>, <<\h107B2, \h107BA>>,
      <<\h10C80, \h10CB2>>, <<\h10CC0, \h10CF2>>, <<\h118A0, \h118DF>>, <<\h16E40, \h16E7F>>, <<\h1D400, \h1D454>>,
      <<\h1D456, \h1D49C>>, <<\h1D49E, \h1D49F>>, <<\h1D4A2, \h1D4A2>>, <<\h1D4A5, \h1D4A6>>, <<\h1D4A9, \h1D4AC>>,
      <<\h1D4AE, \h1D4B9>>, <<\h1D4BB, \h1D4BB>>, <<\h1D4BD, \h1D4C3>>, <<\h1D4C5, \h1D505>>, <<\h1D507, \h1D50A>>,
      <<\h1D50D, \h1D514>>, <<\h1D516, \h1D51C>>, <<\h1D51E, \h1D539>>, <<\h1D53B, \h1D53E>>, <<\h1D540, \h1D544>>,
      <<\h1D546, \h1D546>>, <<\h1D54A, \h1D550>>, <<\h1D552, \h1D6A5>>, <<\h1D6A8, \h1D6C0>>, <<\h1D6C2, \h1D6DA>>,
      <<\h1D6DC, \h1D6FA>>, <<\h1D6FC, \h1D714>>, <<\h1D716, \h1D734>>, <<\h1D736, \h1D74E>>, <<\h1D750, \h1D76E>>,
      <<\h1D770, \h1D788>>, <<\h1D78A, \h1D7A8>>, <<\h1D7AA, \h1D7C2>>, <<\h1D7C4, \h1D7CB>>, <<\h1DF00, \h1DF09>>,
      <<\h1DF0B, \h1DF1E>>, <<\h1E900, \h1E943>>, <<\h1F130, \h1F149>>, <<\h1F150, \h1F169>>, <<\h1F170, \h1F189>> }

\* the case-ignorable characters: marks, format characters, modifier
\* letters and symbols, and the punctuation that may stand inside a word
CaseIgnorableRanges ==
    { <<\h0027, \h0027>>, <<\h002E, \h002E>>, <<\h003A, \h003A>>, <<\h005E, \h005E>>, <<\h0060, \h0060>>,
      <<\h00A8, \h00A8>>, <<\h00AD, \h00AD>>, <<\h00AF, \h00AF>>, <<\h00B4, \h00B4>>, <<\h00B7, \h00B8>>,
      <<\h02B0, \h036F>>, <<\h0374, \h0375>>, <<\h037A, \h037A>>, <<\h0384, \h0385>>, <<\h0387, \h0387>>,
      <<\h0483, \h0489>>, <<\h0559, \h0559>>, <<\h055F, \h055F>>, <<\h0591, \h05BD>>, <<\h05BF, \h05BF>>,
      <<\h05C1, \h05C2>>, <<\h05C4, \h05C5>>, <<\h05C7, \h05C7>>, <<\h05F4, \h05F4>>, <<\h0600, \h0605>>,
      <<\h0610, \h061A>>, <<\h061C, \h061C>>, <<\h0640, \h0640>>, <<\h064B, \h065F>>, <<\h0670, \h0670>>,
      <<\h06D6, \h06DD>>, <<\h06DF, \h06E8>>, <<\h06EA, \h06ED>>, <<\h070F, \h070F>>, <<\h0711, \h0711>>,
      <<\h0730, \h074A>>, <<\h07A6, \h07B0>>, <<\h07EB, \h07F5>>, <<\h07FA, \h07FA>>, <<\h07FD, \h07FD>>,
      <<\h0816, \h082D>>, <<\h0859, \h085B>>, <<\h0888, \h0888>>, <<\h0890, \h0891>>, <<\h0898, \h089F>>,
      <<\h08C9, \h0902>>, <<\h093A, \h093A>>, <<\h093C, \h093C>>, <<\h0941, \h0948>>, <<\h094D, \h094D>>,
      <<\h0951, \h0957>>, <<\h0962, \h0963>>, <<\h0971, \h0971>>, <<\h0981, \h0981>>, <<\h09BC, \h09BC>>,
      <<\h09C1, \h09C4>>, <<\h09CD, \h09CD>>, <<\h09E2, \h09E3>>, <<\h09FE, \h09FE>>, <<\h0A01, \h0A02>>,
      <<\h0A3C, \h0A3C>>, <<\h0A41, \h0A42>>, <<\h0A47, \h0A48>>, <<\h0A4B, \h0A4D>>, <<\h0A51, \h0A51>>,
      <<\h0A70, \h0A71>>, <<\h0A75, \h0A75>>, <<\h0A81, \h0A82>>, <<\h0ABC, \h0ABC>>, <<\h0AC1, \h0AC5>>,
      <<\h0AC7, \h0AC8>>, <<\h0ACD, \h0ACD>>, <<\h0AE2, \h0AE3>>, <<\h0AFA, \h0AFF>>, <<\h0B01, \h0B01>>,
      <<\h0B3C, \h0B3C>>, <<\h0B3F, \h0B3F>>, <<\h0B41, \h0B44>>, <<\h0B4D, \h0B4D>>, <<\h0B55, \h0B56>>,
      <<\h0B62, \h0B63>>, <<\h0B82, \h0B82>>, <<\h0BC0, \h0BC0>>, <<\h0BCD, \h0BCD>>, <<\h0C00, \h0C00>>,
      <<\h0C04, \h0C04>>, <<\h0C3C, \h0C3C>>, <<\h0C3E, \h0C40>>, <<\h0C46, \h0C48>>, <<\h0C4A, \h0C4D>>,
      <<\h0C55, \h0C56>>, <<\h0C62, \h0C63>>, <<\h0C81, \h0C81>>, <<\h0CBC, \h0CBC>>, <<\h0CBF, \h0CBF>>,
      <<\h0CC6, \h0CC6>>, <<\h0CCC, \h0CCD>>, <<\h0CE2, \h0CE3>>, <<\h0D00, \h0D01>>, <<\h0D3B, \h0D3C>>,
      <<\h0D41, \h0D44>>, <<\h0D4D, \h0D4D>>, <<\h0D62, \h0D63>>, <<\h0D81, \h0D81>>, <<\h0DCA, \h0DCA>>,
      <<\h0DD2, \h0DD4>>, <<\h0DD6, \h0DD6>>, <<\h0E31, \h0E31>>, <<\h0E34, \h0E3A>>, <<\h0E46, \h0E4E>>,
      <<\h0EB1, \h0EB1>>, <<\h0EB4, \h0EBC>>, <<\h0EC6, \h0EC6>>, <<\h0EC8, \h0ECD>>, <<\h0F18, \h0F19>>,
      <<\h0F35, \h0F35>>, <<\h0F37, \h0F37>>, <<\h0F39, \h0F39>>, <<\h0F71, \h0F7E>>, <<\h0F80, \h0F84>>,
      <<\h0F86, \h0F87>>, <<\h0F8D, \h0F97>>, <<\h0F99, \h0FBC>>, <<\h0FC6, \h0FC6>>, <<\h102D, \h1030>>,
      <<\h1032, \h1037>>, <<\h1039, \h103A>>, <<\h103D, \h103E>>, <<\h1058, \h1059>>, <<\h105E, \h1060>>,
      <<\h1071, \h1074>>, <<\h1082, \h1082>>, <<\h1085, \h1086>>, <<\h108D, \h108D>>, <<\h109D, \h109D>>,
      <<\h10FC, \h10FC>>, <<\h135D, \h135F>>, <<\h1712, \h1714>>, <<\h1732, \h1733>>, <<\h1752, \h1753>>,
      <<\h1772, \h1773>>, <<\h17B4, \h17B5>>, <<\h17B7, \h17BD>>, <<\h17C6, \h17C6>>, <<\h17C9, \h17D3>>,
      <<\h17D7, \h17D7>>, <<\h17DD, \h17DD>>, <<\h180B, \h180F>>, <<\h1843, \h1843>>, <<\h1885, \h1886>>,
      <<\h18A9, \h18A9>>, <<\h1920, \h1922>>, <<\h1927, \h1928>>, <<\h1932, \h1932>>, <<\h1939, \h193B>>,
      <<\h1A17, \h1A18>>, <<\h1A1B, \h1A1B>>, <<\h1A56, \h1A56>>, <<\h1A58, \h1A5E>>, <<\h1A60, \h1A60>>,
      <<\h1A62, \h1A62>>, <<\h1A65, \h1A6C>>, <<\h1A73, \h1A7C>>, <<\h1A7F, \h1A7F>>, <<\h1AA7, \h1AA7>>,
      <<\h1AB0, \h1ACE>>, <<\h1B00, \h1B03>>, <<\h1B34, \h1B34>>, <<\h1B36, \h1B3A>>, <<\h1B3C, \h1B3C>>,
      <<\h1B42, \h1B42>>, <<\h1B6B, \h1B73>>, <<\h1B80, \h1B81>>, <<\h1BA2, \h1BA5>>, <<\h1BA8, \h1BA9>>,
      <<\h1BAB, \h1BAD>>, <<\h1BE6, \h1BE6>>, <<\h1BE8, \h1BE9>>, <<\h1BED, \h1BED>>, <<\h1BEF, \h1BF1>>,
      <<\h1C2C, \h1C33>>, <<\h1C36, \h1C37>>, <<\h1C78, \h1C7D>>, <<\h1CD0, \h1CD2>>, <<\h1CD4, \h1CE0>>,
      <<\h1CE2, \h1CE8>>, <<\h1CED, \h1CED>>, <<\h1CF4, \h1CF4>>, <<\h1CF8, \h1CF9>>, <<\h1D2C, \h1D6A>>,
      <<\h1D78, \h1D78>>, <<\h1D9B, \h1DFF>>, <<\h1FBD, \h1FBD>>, <<\h1FBF, \h1FC1>>, <<\h1FCD, \h1FCF>>,
      <<\h1FDD, \h1FDF>>, <<\h1FED, \h1FEF>>, <<\h1FFD, \h1FFE>>, <<\h200B, \h200F>>, <<\h2018, \h2019>>,
      <<\h2024, \h2024>>, <<\h2027, \h2027>>, <<\h202A, \h202E>>, <<\h2060, \h2064>>, <<\h2066, \h206F>>,
      <<\h2071, \h2071>>, <<\h207F, \h207F>>, <<\h2090, \h209C>>, <<\h20D0, \h20F0>>, <<\h2C7C, \h2C7D>>,
      <<\h2CEF, \h2CF1>>, <<\h2D6F, \h2D6F>>, <<\h2D7F, \h2D7F>>, <<\h2DE0, \h2DFF>>, <<\h2E2F, \h2E2F>>,
      <<\h3005, \h3005>>, <<\h302A, \h302D>>, <<\h3031, \h3035>>, <<\h303B, \h303B>>, <<\h3099, \h309E>>,
      <<\h30FC, \h30FE>>, <<\hA015, \hA015>>, <<\hA4F8, \hA4FD>>, <<\hA60C, \hA60C>>, <<\hA66F, \hA672>>,
      <<\hA674, \hA67D>>, <<\hA67F, \hA67F>>, <<\hA69C, \hA69F>>, <<\hA6F0, \hA6F1>>, <<\hA700, \hA721>>,
      <<\hA770, \hA770>>, <<\hA788, \hA78A>>, <<\hA7F2, \hA7F4>>, <<\hA7F8, \hA7F9>>, <<\hA802, \hA802>>,
      <<\hA806, \hA806>>, <<\hA80B, \hA80B>>, <<\hA825, \hA826>>, <<\hA82C, \hA82C>>, <<\hA8C4, \hA8C5>>,
      <<\hA8E0, \hA8F1>>, <<\hA8FF, \hA8FF>>, <<\hA926, \hA92D>>, <<\hA947, \hA951>>, <<\hA980, \hA982>>,
      <<\hA9B3, \hA9B3>>, <<\hA9B6, \hA9B9>>, <<\hA9BC, \hA9BD>>, <<\hA9CF, \hA9CF>>, <<\hA9E5, \hA9E6>>,
      <<\hAA29, \hAA2E>>, <<\hAA31, \hAA32>>, <<\hAA35, \hAA36>>, <<\hAA43, \hAA43>>, <<\hAA4C, \hAA4C>>,
      <<\hAA70, \hAA70>>, <<\hAA7C, \hAA7C>>, <<\hAAB0, \hAAB0>>, <<\hAAB2, \hAAB4>>, <<\hAAB7, \hAAB8>>,
      <<\hAABE, \hAABF>>, <<\hAAC1, \hAAC1>>, <<\hAADD, \hAADD>>, <<\hAAEC, \hAAED>>, <<\hAAF3, \hAAF4>>,
      <<\hAAF6, \hAAF6>>, <<\hAB5B, \hAB5F>>, <<\hAB69, \hAB6B>>, <<\hABE5, \hABE5>>, <<\hABE8, \hABE8>>,
      <<\hABED, \hABED>>, <<\hFB1E, \hFB1E>>, <<\hFBB2, \hFBC2>>, <<\hFE00, \hFE0F>>, <<\hFE13, \hFE13>>,
      <<\hFE20, \hFE2F>>, <<\hFE52, \hFE52>>, <<\hFE55, \hFE55>>, <<\hFEFF, \hFEFF>>, <<\hFF07, \hFF07>>,
      <<\hFF0E, \hFF0E>>, <<\hFF1A, \hFF1A>>, <<\hFF3E, \hFF3E>>, <<\hFF40, \hFF40>>, <<\hFF70, \hFF70>>,
      <<\hFF9E, \hFF9F>>, <<\hFFE3, \hFFE3>>, <<\hFFF9, \hFFFB>>, <<\h101FD, \h101FD>>, <<\h102E0, \h102E0>>,
      <<\h10376, \h1037A>>, <<\h10780, \h10785>>, <<\h10787, \h107B0>>, <<\h107B2, \h107BA>>, <<\h10A01, \h10A03>>,
      <<\h10A05, \h10A06>>, <<\h10A0C, \h10A0F>>, <<\h10A38, \h10A3A>>, <<\h10A3F, \h10A3F>>, <<\h10AE5, \h10AE6>>,
      <<\h10D24, \h10D27>>, <<\h10EAB, \h10EAC>>, <<\h10F46, \h10F50>>, <<\h10F82, \h10F85>>, <<\h11001, \h11001>>,
      <<\h11038, \h11046>>, <<\h11070, \h11070>>, <<\h11073, \h11074>>, <<\h1107F, \h11081>>, <<\h110B3, \h110B6>>,
      <<\h110B9, \h110BA>>, <<\h110BD, \h110BD>>, <<\h110C2, \h110C2>>, <<\h110CD, \h110CD>>, <<\h11100, \h11102>>,
      <<\h11127, \h1112B>>, <<\h1112D, \h11134>>, <<\h11173, \h11173>>, <<\h11180, \h11181>>, <<\h111B6, \h111BE>>,
      <<\h111C9, \h111CC>>, <<\h111CF, \h111CF>>, <<\h1122F, \h11231>>, <<\h11234, \h11234>>, <<\h11236, \h11237>>,
      <<\h1123E, \h1123E>>, <<\h112DF, \h112DF>>, <<\h112E3, \h112EA>>, <<\h11300, \h11301>>, <<\h1133B, \h1133C>>,
      <<\h11340, \h11340>>, <<\h11366, \h1136C>>, <<\h11370, \h11374>>, <<\h11438, \h1143F>>, <<\h11442, \h11444>>,
      <<\h11446, \h11446>>, <<\h1145E, \h1145E>>, <<\h114B3, \h114B8>>, <<\h114BA, \h114BA>>, <<\h114BF, \h114C0>>,
      <<\h114C2, \h114C3>>, <<\h115B2, \h115B5>>, <<\h115BC, \h115BD>>, <<\h115BF, \h115C0>>, <<\h115DC, \h115DD>>,
      <<\h11633, \h1163A>>, <<\h1163D, \h1163D>>, <<\h1163F, \h11640>>, <<\h116AB, \h116AB>>, <<\h116AD, \h116AD>>,
      <<\h116B0, \h116B5>>, <<\h116B7, \h116B7>>, <<\h1171D, \h1171F>>, <<\h11722, \h11725>>, <<\h11727, \h1172B>>,
      <<\h1182F, \h11837>>, <<\h11839, \h1183A>>, <<\h1193B, \h1193C>>, <<\h1193E, \h1193E>>, <<\h11943, \h11943>>,
      <<\h119D4, \h119D7>>, <<\h119DA, \h119DB>>, <<\h119E0, \h119E0>>, <<\h11A01, \h11A0A>>, <<\h11A33, \h11A38>>,
      <<\h11A3B, \h11A3E>>, <<\h11A47, \h11A47>>, <<\h11A51, \h11A56>>, <<\h11A59, \h11A5B>>, <<\h11A8A, \h11A96>>,
      <<\h11A98, \h11A99>>, <<\h11C30, \h11C36>>, <<\h11C38, \h11C3D>>, <<\h11C3F, \h11C3F>>, <<\h11C92, \h11CA7>>,
      <<\h11CAA, \h11CB0>>, <<\h11CB2, \h11CB3>>, <<\h11CB5, \h11CB6>>, <<\h11D31, \h11D36>>, <<\h11D3A, \h11D3A>>,
      <<\h11D3C, \h11D3D>>, <<\h11D3F, \h11D45>>, <<\h11D47, \h11D47>>, <<\h11D90, \h11D91>>, <<\h11D95, \h11D95>>,
      <<\h11D97, \h11D97>>, <<\h11EF3, \h11EF4>>, <<\h13430, \h13438>>, <<\h16AF0, \h16AF4>>, <<\h16B30, \h16B36>>,
      <<\h16B40, \h16B43>>, <<\h16F4F, \h16F4F>>, <<\h16F8F, \h16F9F>>, <<\h16FE0, \h16FE1>>, <<\h16FE3, \h16FE4>>,
      <<\h1AFF0, \h1AFF3>>, <<\h1AFF5, \h1AFFB>>, <<\h1AFFD, \h1AFFE>>, <<\h1BC9D, \h1BC9E>>, <<\h1BCA0, \h1BCA3>>,
      <<\h1CF00, \h1CF2D>>, <<\h1CF30, \h1CF46>>, <<\h1D167, \h1D169>>, <<\h1D173, \h1D182>>, <<\h1D185, \h1D18B>>,
      <<\h1D1AA, \h1D1AD>>, <<\h1D242, \h1D244>>, <<\h1DA00, \h1DA36>>, <<\h1DA3B, \h1DA6C>>, <<\h1DA75, \h1DA75>>,
      <<\h1DA84, \h1DA84>>, <<\h1DA9B, \h1DA9F>>, <<\h1DAA1, \h1DAAF>>, <<\h1E000, \h1E006>>, <<\h1E008, \h1E018>>,
      <<\h1E01B, \h1E021>>, <<\h1E023, \h1E024>>, <<\h1E026, \h1E02A>>, <<\h1E130, \h1E13D>>, <<\h1E2AE, \h1E2AE>>,
      <<\h1E2EC, \h1E2EF>>, <<\h1E8D0, \h1E8D6>>, <<\h1E944, \h1E94B>>, <<\h1F3FB, \h1F3FF>>, <<\hE0001, \hE0001>>,
      <<\hE0020, \hE007F>>, <<\hE0100, \hE01EF>> }

IsCased(c) == \E n \in {ord(c)} : InRanges(n, CasedRanges)

IsCaseIgnorable(c) == \E n \in {ord(c)} : InRanges(n, CaseIgnorableRanges)

\* the capital sigma at s[i] is lowered to the final form of the small
\* sigma: the nearest character before it that is not case-ignorable is
\* cased, and the nearest such character after it, if any, is not
FinalSigma(s, i) ==
    LET before == { j \in 1..(i - 1) : ~IsCaseIgnorable(s[j]) }
        after == { j \in (i + 1)..Len(s) : ~IsCaseIgnorable(s[j]) }
    IN  /\ before # {} /\ IsCased(s[SetMax(before)])
        /\ (after = {} \/ ~IsCased(s[SetMin(after)]))

RECURSIVE LowerFrom(_, _)
\* str.lower() from s[i] on
LowerFrom(s, i) ==
    IF i > Len(s) THEN <<>>
    ELSE (IF s[i] = Capital_sigma
          THEN << IF FinalSigma(s, i) THEN Final_small_sigma ELSE Small_sigma >>
          ELSE ToLowerChar(s[i]))
         \o LowerFrom(s, i + 1)

\* str.lower()
lower(s) == LowerFrom(s, 1)

RECURSIVE lstrip(_)
\* str.lstrip()
lstrip(s) == IF s # <<>> /\ IsSpace(Head(s)) THEN lstrip(Tail(s)) ELSE s

RECURSIVE rstrip(_)
\* str.rstrip()
rstrip(s) ==
    IF s # <<>> /\ IsSpace(s[Len(s)]) THEN rstrip(SubSeq(s, 1, Len(s) - 1)) ELSE s

\* str.strip()
strip(s) == rstrip(lstrip(s))

RECURSIVE TokenEnd(_, _)
\* index of the last character of the whitespace-free run that starts at i
TokenEnd(s, i) ==
    IF i < Len(s) /\ ~IsSpace(s[i + 1]) THEN TokenEnd(s, i + 1) ELSE i

RECURSIVE SplitFrom(_, _)
SplitFrom(s, i) ==
    IF i > Len(s) THEN <<>>
    ELSE IF IsSpace(s[i]) THEN SplitFrom(s, i + 1)
    ELSE LET e == TokenEnd(s, i)
         IN  <<SubSeq(s, i, e)>> \o SplitFrom(s, e + 1)

\* str.split() with no argument: the maximal runs of non-whitespace
split(s) == SplitFrom(s, 1)

RECURSIVE join(_)
\* ' '.join(parts)
join(parts) ==
    IF parts = <<>> THEN <<>>
    ELSE IF Len(parts) = 1 THEN parts[1]
    ELSE parts[1] \o <<" ">> \o join(Tail(parts))

---------------------------------------------------------------------------
(* find_scholar_ids.py: normalize_name                                      *)

\* The alternatives of the suffix/title pattern
\*   \b(Jr\.?|Sr\.?|III|II|IV|PhD|Ph\.D\.|Dr\.?|Prof\.?)\b
\* in the order the regex engine tries them (a greedy optional "." first),
\* lower-cased because the pattern is matched with re.IGNORECASE.
TitlePatterns ==
    << <<"j","r",".">>, <<"j","r">>,
       <<"s","r",".">>, <<"s","r">>,
       <<"i","i","i">>, <<"i","i">>, <<"i","v">>,
       <<"p","h","d">>, <<"p","h",".","d",".">>,
       <<"d","r",".">>, <<"d","r">>,
       <<"p","r","o","f",".">>, <<"p","r","o","f">> >>

\* \b at the position before s[i] (i in 1..Len(s)+1): exactly one of the two
\* neighbouring characters is a word character; outside the string counts
\* as a non-word character.
WordBoundary(s, i) ==
    LET before == i > 1 /\ IsWordChar(s[i - 1])
        after  == i <= Len(s) /\ IsWordChar(s[i])
    IN  before # after

\* re.IGNORECASE in a str pattern: the character c of the text matches the
\* lower-case letter p of the pattern. Besides the two cases of the letter,
\* "i" matches capital I with dot above and dotless i, "s" the long s, and
\* "k" the Kelvin sign.
MatchesIgnoringCase(c, p) ==
    \/ c = p
    \/ (c \in Range(UpperSeq) /\ ToLowerChar(c) = << p >>)
    \/ (p = "i" /\ c \in {I_with_dot, Dotless_i})
    \/ (p = "s" /\ c = Long_s)
    \/ (p = "k" /\ c = Kelvin_sign)

\* the literal p occurs in s at position i, ignoring case
MatchesAt(s, i, p) ==
    /\ i + Len(p) - 1 <= Len(s)
    /\ \A k \in 1..Len(p) : MatchesIgnoringCase(s[i + k - 1], p[k])

\* length of the pattern's match that starts at s[i], 0 when there is none:
\* the first alternative, in the engine's order, that matches and is
\* followed by a word boundary
TitleMatchLen(s, i) ==
    IF ~WordBoundary(s, i) THEN 0
    ELSE LET ok == {k \in 1..Len(TitlePatterns) :
                        /\ MatchesAt(s, i, TitlePatterns[k])
                        /\ WordBoundary(s, i + Len(TitlePatterns[k]))}
         IN  IF ok = {} THEN 0 ELSE Len(TitlePatterns[SetMin(ok)])

RECURSIVE StripTitlesFrom(_, _)
StripTitlesFrom(s, i) ==
    IF i > Len(s) THEN <<>>
    ELSE LET n == TitleMatchLen(s, i)
         IN  IF n > 0 THEN StripTitlesFrom(s, i + n)
             ELSE <<s[i]>> \o StripTitlesFrom(s, i + 1)

\* re.sub(r'\b(Jr\.?|...|Prof\.?)\b', '', name, flags=re.IGNORECASE)
StripTitles(name) == StripTitlesFrom(name, 1)

\* re.sub(r'[^\w\s\'-]', '', name)
RemovePunctuation(name) ==
    SelectSeq(name, LAMBDA c : IsWordChar(c) \/ IsSpace(c) \/ c = "'" \/ c = "-")

normalize_name(name) ==
    strip(lower(join(split(RemovePunctuation(StripTitles(name))))))

---------------------------------------------------------------------------
(* difflib.SequenceMatcher(None, a, b).ratio(), as names_match uses it     *)

\* bpopular of SequenceMatcher (autojunk is on): when b has 200 characters or
\* more, the characters that occur in it more than len(b) // 100 + 1 times.
\* They are taken out of the index b2j, so no block is found through them.
bpopular(b) ==
    IF Len(b) >= 200
    THEN { c \in Range(b) : Cardinality({ k \in 1..Len(b) : b[k] = c }) > (Len(b) \div 100) + 1 }
    ELSE {}

\* length of the common run of a[i..ahi] and b[j..bhi] that starts at i, j
\* and holds none of the characters left out
CommonRun(a, b, i, j, ahi, bhi, left_out) ==
    LET n == IF ahi - i < bhi - j THEN ahi - i + 1 ELSE bhi - j + 1
    IN  IF n <= 0 THEN 0
        ELSE SetMin({ t \in 0..n : t = n \/ a[i + t] # b[j + t] \/ b[j + t] \in left_out })

\* length of the common run of a[alo..i] and b[blo..j] that ends at i, j
CommonRunBack(a, b, i, j, alo, blo) ==
    LET n == IF i - alo < j - blo THEN i - alo + 1 ELSE j - blo + 1
    IN  IF n <= 0 THEN 0
        ELSE SetMin({ t \in 0..n : t = n \/ a[i - t] # b[j - t] })

\* The longest matching block of a[alo..ahi] and b[blo..bhi]. The search
\* takes the longest block free of popular characters; of the longest
\* blocks the one that starts earliest in a, and of those the one that
\* starts earliest in b; when it finds none it stands at alo, blo with
\* size 0. The block is then extended to the left and to the right as far
\* as the characters agree, popular or not (no character is junk: isjunk is
\* None).
find_longest_match(a, b, alo, ahi, blo, bhi) ==
    LET pairs == (alo..ahi) \X (blo..bhi)
        popular == bpopular(b)
        run(p) == CommonRun(a, b, p[1], p[2], ahi, bhi, popular)
        sizes == { run(p) : p \in pairs } \cup {0}
        best == CHOOSE k \in sizes : \A m \in sizes : m <= k
        cands == {p \in pairs : run(p) = best}
        bi == IF best = 0 THEN alo ELSE SetMin({p[1] : p \in cands})
        bj == IF best = 0 THEN blo ELSE SetMin({p[2] : p \in {q \in cands : q[1] = bi}})
        left == CommonRunBack(a, b, bi - 1, bj - 1, alo, blo)
        right == CommonRun(a, b, bi + best, bj + best, ahi, bhi, {})
    IN  [i |-> bi - left, j |-> bj - left, size |-> left + best + right]

RECURSIVE matching_total(_, _, _, _, _, _)
\* sum of the sizes of get_matching_blocks(): the longest block, then the
\* blocks of the pieces to its left and to its right
matching_total(a, b, alo, ahi, blo, bhi) ==
    IF alo > ahi \/ blo > bhi THEN 0
    ELSE LET m == find_longest_match(a, b, alo, ahi, blo, bhi)
         IN  IF m.size = 0 THEN 0
             ELSE m.size
                  + matching_total(a, b, alo, m.i - 1, blo, m.j - 1)
                  + matching_total(a, b, m.i + m.size, ahi, m.j + m.size, bhi)

\* ratio() = 2.0 * matches / (len(a) + len(b)), 1.0 when both are empty;
\* kept as the exact fraction ratio_num / ratio_den
ratio_num(a, b) == IF Len(a) + Len(b) = 0 THEN 1 ELSE 2 * matching_total(a, b, 1, Len(a), 1, Len(b))
ratio_den(a, b) == IF Len(a) + Len(b) = 0 THEN 1 ELSE Len(a) + Len(b)

\* ratio() < 0.8 (0.8 = 4/5; the division is correctly rounded, so the
\* floating-point comparison agrees with the exact one)
ratio_below_080(a, b) == 5 * ratio_num(a, b) < 4 * ratio_den(a, b)

---------------------------------------------------------------------------
(* find_scholar_ids.py: names_match                                         *)

\* mutant: only the searched name's first token is allowed to be an initial
first_names_agree_one_sided(search_first, result_first) ==
    IF Len(search_first) = 1
    THEN search_first[1] = result_first[1]
    ELSE ~ratio_below_080(search_first, result_first)

\* mutant: initials are compared like full first names
first_names_agree_no_initial(search_first, result_first) ==
    ~ratio_below_080(search_first, result_first)

\* lines 188-195: FALSE where the code returns False on the first names
first_names_agree(search_first, result_first) ==
    IF Len(search_first) = 1 \/ Len(result_first) = 1
    THEN search_first[1] = result_first[1]
    ELSE ~ratio_below_080(search_first, result_first)

\* mutant: the middle names are not looked at
middle_names_agree_unchecked(search_parts, result_parts) == TRUE

\* lines 198-213: the result of the middle-name check that ends names_match
middle_names_agree(search_parts, result_parts) ==
    LET search_middle == Range(SubSeq(search_parts, 2, Len(search_parts) - 1))
        result_middle == Range(SubSeq(result_parts, 2, Len(result_parts) - 1))
    IN  IF Len(search_parts) > 2 \/ Len(result_parts) > 2
        THEN IF search_middle # {} /\ result_middle # {}
             THEN \E sm \in search_middle : \E rm \in result_middle :
                     \/ sm = rm
                     \/ (Len(sm) = 1 /\ sm[1] = rm[1])
                     \/ (Len(rm) = 1 /\ rm[1] = sm[1])
             ELSE TRUE
        ELSE TRUE

\* threshold is a percentage (85 for the default 0.85); the body never reads it
names_match(search_name, result_name, threshold) ==
    LET search_norm == normalize_name(search_name)
        result_norm == normalize_name(result_name)
        search_parts == split(search_norm)
        result_parts == split(result_norm)
    IN  IF search_norm = result_norm THEN TRUE
        ELSE IF Len(search_parts) < 2 \/ Len(result_parts) < 2 THEN FALSE
        ELSE IF search_parts[Len(search_parts)] # result_parts[Len(result_parts)] THEN FALSE
        ELSE IF ~first_names_agree(search_parts[1], result_parts[1]) THEN FALSE
        ELSE middle_names_agree(search_parts, result_parts)

DefaultThreshold == 85

---------------------------------------------------------------------------
(* Inputs of the name functions                                             *)

MaxTokens == 3

\* words names are built from: an initial with a period, first names whose
\* similarity is exactly 0.8 ("jo", "Joe"), unrelated words
NameTokens ==
    { <<"J", ".">>, <<"j", "o">>, <<"J", "o", "e">>, <<"a", "l">>, <<"l", "i">> }

RECURSIVE TokenSeqs(_)
TokenSeqs(n) ==
    IF n = 0 THEN {<<>>}
    ELSE LET shorter == TokenSeqs(n - 1)
         IN  shorter \cup {<<t>> \o s : t \in NameTokens, s \in {x \in shorter : Len(x) = n - 1}}

J_Smith == <<"J", ".", " ", "S", "m", "i", "t", "h">>
John_Smith == <<"J", "o", "h", "n", " ", "S", "m", "i", "t", "h">>
Jane_Smith == <<"J", "a", "n", "e", " ", "S", "m", "i", "t", "h">>
Jon_Smith == <<"J", "o", "n", " ", "S", "m", "i", "t", "h">>

\* names with characters outside ASCII: a capital and a small e with acute
\* accent, and a no-break space between the words
Eric_al_capital == <<"U+00C9", "r", "i", "c", " ", "a", "l">>
Eric_al_small == <<"U+00E9", "r", "i", "c", " ", "a", "l">>
Jo_al_no_break == <<"j", "o", "U+00A0", "a", "l">>

\* names with letters outside Latin-1: a small and a capital l with stroke,
\* and Greek capitals that end in a sigma
Pawel_al_stroke == <<"P", "a", "w", "e", "U+0142", " ", "a", "l">>
Lukasz_al_capital == <<"U+0141", "u", "k", "a", "s", "z", " ", "a", "l">>
Sos_al_capitals == <<"U+03A3", "U+039F", "U+03A3", " ", "a", "l">>

ExampleNames ==
    {J_Smith, John_Smith, Jane_Smith, Jon_Smith, Eric_al_capital, Eric_al_small, Jo_al_no_break,
     Pawel_al_stroke, Lukasz_al_capital, Sos_al_capitals}

Names == {join(ts) : ts \in TokenSeqs(MaxTokens)} \cup ExampleNames

\* the honorific and suffix forms the pattern lists
TitleForms ==
    { <<"J","r">>, <<"J","r",".">>, <<"S","r">>, <<"S","r",".">>,
      <<"I","I">>, <<"I","I","I">>, <<"I","V">>,
      <<"P","h","D">>, <<"P","h",".","D",".">>,
      <<"D","r">>, <<"D","r",".">>, <<"P","r","o","f">>, <<"P","r","o","f",".">> }

---------------------------------------------------------------------------
(* SpecNames: names_match on every pair of names                            *)

InitNames ==
    /\ nm_search \in Names
    /\ nm_result \in Names
    /\ matched = FALSE
    /\ nm_pc = "input"
    /\ NormIdle /\ CsvIdle /\ DateIdle /\ FlowIdle /\ ExtractIdle

ApplyNamesMatch ==
    /\ nm_pc = "input"
    /\ matched' = names_match(nm_search, nm_result, DefaultThreshold)
    /\ nm_pc' = "done"
    /\ UNCHANGED <<nm_search, nm_result, normVars, csvVars, dateVars, flowVars, extractVars>>

NextNames == ApplyNamesMatch

SpecNames == InitNames /\ [][NextNames]_vars

---------------------------------------------------------------------------
(* SpecNorm: normalize_name on a name with a title added as a word of its  *)
(* own, after or before the name                                           *)

WithTitle(name, form, where) ==
    IF where = "append" THEN name \o <<" ">> \o form ELSE form \o <<" ">> \o name

InitNorm ==
    /\ raw_name \in Names
    /\ title \in TitleForms
    /\ placement \in {"append", "prefix"}
    /\ norm_with = <<>> /\ norm_without = <<>>
    /\ norm_pc = "input"
    /\ NamesIdle /\ CsvIdle /\ DateIdle /\ FlowIdle /\ ExtractIdle

ApplyNormalize ==
    /\ norm_pc = "input"
    /\ norm_with' = normalize_name(WithTitle(raw_name, title, placement))
    /\ norm_without' = normalize_name(raw_name)
    /\ norm_pc' = "done"
    /\ UNCHANGED <<raw_name, title, placement, namesVars, csvVars, dateVars, flowVars, extractVars>>

NextNorm == ApplyNormalize

SpecNorm == InitNorm /\ [][NextNorm]_vars

---------------------------------------------------------------------------
(* load_faculty_data and save_faculty_data (the same code in                *)
(* find_scholar_ids.py and update_citations.py), with the csv module's      *)
(* writer and reader of the default (excel) dialect.                        *)
(* A record is a dict: a function from field names to text.                 *)

\* Python's None, where a text is expected (no text has this element)
None == <<"None">>

F_name == <<"n","a","m","e">>
F_scholar_id == <<"s","c","h","o","l","a","r","_","i","d">>
F_citations == <<"c","i","t","a","t","i","o","n","s">>
F_h_index == <<"h","_","i","n","d","e","x">>
F_as_of_date == <<"a","s","_","o","f","_","d","a","t","e">>

fieldnames == <<F_name, F_scholar_id, F_citations, F_h_index, F_as_of_date>>

\* QUOTE_MINIMAL: a field is quoted when it holds the delimiter, the quote
\* character or a character of the line terminator "\r\n"
NeedsQuotes(field) ==
    \E k \in 1..Len(field) : field[k] \in {",", "\"", "\r", "\n"}

RECURSIVE DoubleQuotes(_, _)
\* doublequote: every quote character inside a quoted field is written twice
DoubleQuotes(field, i) ==
    IF i > Len(field) THEN <<>>
    ELSE (IF field[i] = "\"" THEN <<"\"", "\"">> ELSE <<field[i]>>)
         \o DoubleQuotes(field, i + 1)

WriteField(field) ==
    IF NeedsQuotes(field)
    THEN <<"\"">> \o DoubleQuotes(field, 1) \o <<"\"">>
    ELSE field

RECURSIVE JoinFields(_, _)
JoinFields(row, i) ==
    IF i > Len(row) THEN <<>>
    ELSE IF i = Len(row) THEN WriteField(row[i])
    ELSE WriteField(row[i]) \o <<",">> \o JoinFields(row, i + 1)

\* csv.writer.writerow: a lone empty field is written as "", every row ends
\* with "\r\n"
writerow(row) ==
    (IF Len(row) = 1 /\ row[1] = <<>> THEN <<"\"", "\"">> ELSE JoinFields(row, 1))
    \o <<"\r", "\n">>

\* DictWriter._dict_to_list raised ValueError("dict contains fields not in
\* fieldnames")
DictValueError == <<"ValueError">>

\* rowdict.keys() - self.fieldnames
wrong_fields(rowdict) == DOMAIN rowdict \ Range(fieldnames)

\* DictWriter._dict_to_list with extrasaction='raise': ValueError for a key
\* outside fieldnames; else the values in the order of fieldnames, '' for a
\* missing key and for None
DictToRow(rowdict) ==
    IF wrong_fields(rowdict) # {} THEN DictValueError
    ELSE [k \in 1..Len(fieldnames) |->
            IF fieldnames[k] \in DOMAIN rowdict /\ rowdict[fieldnames[k]] # None
            THEN rowdict[fieldnames[k]]
            ELSE <<>>]

\* a surrogate: a character UTF-8 does not encode
IsSurrogate(c) == Len(c) > 1 /\ \E n \in {ord(c)} : \hD800 <= n /\ n <= \hDFFF

\* f.write(line) of the row raises UnicodeEncodeError
encode_raises(row) ==
    \E k \in 1..Len(row) : \E j \in 1..Len(row[k]) : IsSurrogate(row[k][j])

RECURSIVE writerows(_, _)
\* DictWriter.writerows from record i on: the rows are written one by one,
\* and the first record that raises ends the writing
writerows(data, i) ==
    IF i > Len(data) THEN <<>>
    ELSE IF DictToRow(data[i]) = DictValueError THEN <<>>
    ELSE IF encode_raises(DictToRow(data[i])) THEN <<>>
    ELSE writerow(DictToRow(data[i])) \o writerows(data, i + 1)

\* what writing one record raises: ValueError of DictWriter for a key
\* outside fieldnames, UnicodeEncodeError of the file (encoding='utf-8')
\* for a row with a surrogate; "ok" when the row is written
RowError(rowdict) ==
    IF wrong_fields(rowdict) # {} THEN "ValueError"
    ELSE IF encode_raises(DictToRow(rowdict)) THEN "UnicodeEncodeError"
    ELSE "ok"

\* save_faculty_data(csv_path, data) raises: some record cannot be written
save_raises(data) == \E k \in 1..Len(data) : RowError(data[k]) # "ok"

\* the exception save_faculty_data(csv_path, data) raises: that of the first
\* record that cannot be written
save_error(data) ==
    RowError(data[CHOOSE k \in 1..Len(data) :
                    /\ RowError(data[k]) # "ok"
                    /\ \A j \in 1..(k - 1) : RowError(data[j]) = "ok"])

\* the content of the file after save_faculty_data(csv_path, data), also
\* when it raised: the header and the rows written before the record that
\* raised. The file is opened with newline='', so the text is written as it
\* is.
save_faculty_data(data) == writerow(fieldnames) \o writerows(data, 1)

\* open(csv_path, 'r') without newline='': universal newlines, "\r\n" and a
\* lone "\r" are read as "\n"
TranslateNewlines(s) ==
    LET marked == [i \in 1..Len(s) |->
                     IF s[i] = "\n" /\ i > 1 /\ s[i - 1] = "\r" THEN "dropped"
                     ELSE IF s[i] = "\r" THEN "\n"
                     ELSE s[i]]
    IN  SelectSeq(marked, LAMBDA c : c # "dropped")

\* the end of a line, which the reader is given after the line's characters
EOL == "EOL"

\* parse_save_field
SaveField(S) == [S EXCEPT !.fields = Append(S.fields, S.field), !.field = <<>>]

\* csv.field_size_limit(): the number of characters a field may hold
field_size_limit == 131072

\* parse_add_char: the character is added to the field; a field that already
\* holds field_size_limit characters makes the reader raise
\* _csv.Error("field larger than field limit"). Where the code then sets a
\* state, that state is given.
AddChar(S, c, st) ==
    IF Len(S.field) >= field_size_limit THEN [S EXCEPT !.st = "ERROR"]
    ELSE [S EXCEPT !.field = Append(S.field, c), !.st = st]

\* parse_process_char of the reader: S is [st, field, fields]; the state
\* "ERROR" stands for the _csv.Error it raised, after which nothing is read
ProcessChar(S, c) ==
    LET newline == c \in {"\n", "\r"}
        startField ==
            IF newline \/ c = EOL
            THEN [SaveField(S) EXCEPT !.st = IF c = EOL THEN "START_RECORD" ELSE "EAT_CRNL"]
            ELSE IF c = "\"" THEN [S EXCEPT !.st = "IN_QUOTED_FIELD"]
            ELSE IF c = "," THEN SaveField(S)
            ELSE AddChar(S, c, "IN_FIELD")
    IN  CASE S.st = "START_RECORD" ->
                IF c = EOL THEN S
                ELSE IF newline THEN [S EXCEPT !.st = "EAT_CRNL"]
                ELSE [startField EXCEPT !.st =
                        IF startField.st = "START_RECORD" THEN "START_FIELD" ELSE startField.st]
          [] S.st = "START_FIELD" -> startField
          [] S.st = "IN_FIELD" ->
                IF newline \/ c = EOL
                THEN [SaveField(S) EXCEPT !.st = IF c = EOL THEN "START_RECORD" ELSE "EAT_CRNL"]
                ELSE IF c = "," THEN [SaveField(S) EXCEPT !.st = "START_FIELD"]
                ELSE AddChar(S, c, "IN_FIELD")
          [] S.st = "IN_QUOTED_FIELD" ->
                IF c = EOL THEN S
                ELSE IF c = "\"" THEN [S EXCEPT !.st = "QUOTE_IN_QUOTED_FIELD"]
                ELSE AddChar(S, c, "IN_QUOTED_FIELD")
          [] S.st = "QUOTE_IN_QUOTED_FIELD" ->
                IF c = "\"" THEN AddChar(S, c, "IN_QUOTED_FIELD")
                ELSE IF c = "," THEN [SaveField(S) EXCEPT !.st = "START_FIELD"]
                ELSE IF newline \/ c = EOL
                THEN [SaveField(S) EXCEPT !.st = IF c = EOL THEN "START_RECORD" ELSE "EAT_CRNL"]
                ELSE AddChar(S, c, "IN_FIELD")
          [] S.st = "EAT_CRNL" ->
                IF c = EOL THEN [S EXCEPT !.st = "START_RECORD"]
                ELSE IF newline THEN S
                ELSE [S EXCEPT !.st = "ERROR"]
          [] S.st = "ERROR" -> S

\* One character of the text given to the reader, R = [st, field, fields,
\* rows]. A "\n" ends a line: the reader is then given EOL, and returns the
\* row when that leaves it at START_RECORD.
ReadChar(R, c) ==
    LET S == [st |-> R.st, field |-> R.field, fields |-> R.fields]
        T == ProcessChar(S, c)
        V == IF c = "\n" THEN ProcessChar(T, EOL) ELSE T
    IN  IF c = "\n" /\ V.st = "START_RECORD"
        THEN [st |-> V.st, field |-> V.field, fields |-> <<>>, rows |-> Append(R.rows, V.fields)]
        ELSE [st |-> V.st, field |-> V.field, fields |-> V.fields, rows |-> R.rows]

RECURSIVE ReadChars(_, _, _, _)
\* the reader after the characters text[lo..hi], read in order
ReadChars(text, lo, hi, R) ==
    IF lo > hi THEN R
    ELSE IF lo = hi THEN ReadChar(R, text[lo])
    ELSE \* the first half is read, then the second half from where it ended
         CHOOSE after \in { ReadChars(text, ((lo + hi) \div 2) + 1, hi, left) :
                               left \in { ReadChars(text, lo, (lo + hi) \div 2, R) } } : TRUE

\* the reader raised _csv.Error ("new-line character seen in unquoted
\* field", "field larger than field limit"): no list of rows is this one (no
\* text has this element)
CsvError == << << <<"_csv.Error">> >> >>

\* list(csv.reader(f)) for the lines of the text, each ending at its "\n": a
\* last line without "\n" is followed by EOL too; at the end of the text an
\* open quoted field ends the last row. A "\r" outside quotes that is not
\* the end of its line makes the reader raise, and so does a field longer
\* than field_size_limit.
reader(text) ==
    CHOOSE rows \in
        { LET open == text # <<>> /\ text[Len(text)] # "\n"
              T == IF open
                   THEN ProcessChar([st |-> R.st, field |-> R.field, fields |-> R.fields], EOL)
                   ELSE [st |-> R.st, field |-> R.field, fields |-> R.fields]
          IN  IF T.st = "ERROR" THEN CsvError
              ELSE IF open /\ T.st = "START_RECORD" THEN Append(R.rows, T.fields)
              ELSE IF T.st = "IN_QUOTED_FIELD" THEN Append(R.rows, Append(T.fields, T.field))
              ELSE R.rows :
          R \in { ReadChars(text, 1, Len(text),
                            [st |-> "START_RECORD", field |-> <<>>, fields |-> <<>>, rows |-> <<>>]) } } : TRUE

\* DictReader.__next__ on one row: dict(zip(fieldnames, row)), the surplus
\* values under the key None, None for the keys the row is too short for
DictRow(header, row) ==
    LET lf == Len(header)
        lr == Len(row)
        keys == Range(header) \cup (IF lf < lr THEN {None} ELSE {})
    IN  [k \in keys |->
            IF k = None /\ lf < lr /\ ~(\E j \in 1..lf : header[j] = None)
            THEN SubSeq(row, lf + 1, lr)
            ELSE IF \E j \in (lr + 1)..lf : header[j] = k THEN None
            ELSE row[CHOOSE j \in 1..lf : header[j] = k /\ \A m \in (j + 1)..lf : header[m] # k]]

\* list(csv.DictReader(f)): the first row gives the keys, empty rows are
\* skipped
DictReader(rows) ==
    IF rows = <<>> THEN <<>>
    ELSE LET body == SelectSeq(Tail(rows), LAMBDA r : r # <<>>)
         IN  [k \in 1..Len(body) |-> DictRow(rows[1], body[k])]

\* list(DictReader) raised the _csv.Error of the reader: no list of records
\* is this one (no text has this element)
LoadError == << (<<"_csv.Error">> :> <<>>) >>

\* the list load_faculty_data returns for a file with the given content, or
\* LoadError when it raises. The text the reader is given holds no "\r", so
\* the reader raises only for a field longer than field_size_limit.
load_faculty_data(content) ==
    CHOOSE data \in { IF rows = CsvError THEN LoadError ELSE DictReader(rows) :
                         rows \in { reader(TranslateNewlines(content)) } } : TRUE

---------------------------------------------------------------------------
(* SpecCsv: save_faculty_data then load_faculty_data on the same path      *)

MaxFieldLen == 2
MaxRecords == 2

CsvAlphabet == {"a", ",", "\"", "\r", "\n"}

RECURSIVE Texts(_, _)
\* the texts over an alphabet of at most n characters
Texts(alphabet, n) ==
    IF n = 0 THEN {<<>>}
    ELSE LET shorter == Texts(alphabet, n - 1)
         IN  shorter \cup {<<c>> \o t : c \in alphabet, t \in {x \in shorter : Len(x) = n - 1}}

Record(name, scholar_id, citations, h_index, as_of_date) ==
    (F_name :> name) @@ (F_scholar_id :> scholar_id) @@ (F_citations :> citations)
        @@ (F_h_index :> h_index) @@ (F_as_of_date :> as_of_date)

\* records with five text fields
CsvRecords ==
    {Record(n, s, c, h, d) :
        n \in Texts(CsvAlphabet, MaxFieldLen), s \in Texts(CsvAlphabet, 1),
        c \in {<<>>, <<"7">>}, h \in {<<>>, <<"1">>}, d \in {<<>>, <<" ">>}}

\* the records that follow the first one of a list
FollowingRecords ==
    {Record(<<>>, <<>>, <<>>, <<>>, <<>>), Record(<<"a">>, <<"\"">>, <<"7">>, <<"1">>, <<",">>)}

RECURSIVE FollowingLists(_)
FollowingLists(n) ==
    IF n = 0 THEN {<<>>}
    ELSE LET shorter == FollowingLists(n - 1)
         IN  shorter \cup {<<r>> \o t : r \in FollowingRecords, t \in {x \in shorter : Len(x) = n - 1}}

CsvLists ==
    {<<>>} \cup {<<r>> \o t : r \in CsvRecords, t \in FollowingLists(MaxRecords - 1)}

InitCsv ==
    /\ csv_data \in CsvLists
    /\ csv_file = <<>>
    /\ csv_loaded = <<>>
    /\ csv_pc = "input"
    /\ NamesIdle /\ NormIdle /\ DateIdle /\ FlowIdle /\ ExtractIdle

Save ==
    /\ csv_pc = "input"
    /\ csv_file' = save_faculty_data(csv_data)
    /\ csv_pc' = "saved"
    /\ UNCHANGED <<csv_data, csv_loaded, namesVars, normVars, dateVars, flowVars, extractVars>>

Load ==
    /\ csv_pc = "saved"
    /\ csv_loaded' = load_faculty_data(csv_file)
    /\ csv_pc' = "loaded"
    /\ UNCHANGED <<csv_data, csv_file, namesVars, normVars, dateVars, flowVars, extractVars>>

NextCsv == Save \/ Load

SpecCsv == InitCsv /\ [][NextCsv]_vars

---------------------------------------------------------------------------
(* update_citations.py: needs_update, with datetime.strptime(., '%Y-%m-%d') *)
(* and the date arithmetic of the datetime module                           *)

\* [0-9]
IsAsciiDigit(c) == c \in Range(DigitSeq)

\* \d of the re module in a str pattern, and str.isdecimal(): a decimal
\* digit of any script
IsDigit(c) == isdecimal(c)

\* int() of one decimal digit
DigitValue(c) ==
    IF c \in Range(DigitSeq)
    THEN (CHOOSE k \in 1..Len(DigitSeq) : DigitSeq[k] = c) - 1
    ELSE CHOOSE v \in { n - (CHOOSE zero \in DecimalDigitBlocks : zero <= n /\ n <= zero + 9) :
                           n \in {ord(c)} } : TRUE

\* the character at position i, "" past the end
CharAt(s, i) == IF i >= 1 /\ i <= Len(s) THEN s[i] ELSE ""

\* the directive %m, (1[0-2]|0[1-9]|[1-9]), followed by the "-" of the
\* format: the number of characters of the first alternative that matches
\* at s[i] and is followed by "-", 0 when none does
MonthLen(s, i) ==
    LET c1 == CharAt(s, i)
        c2 == CharAt(s, i + 1)
    IN  IF ((c1 = "1" /\ c2 \in {"0", "1", "2"}) \/ (c1 = "0" /\ IsAsciiDigit(c2) /\ c2 # "0"))
           /\ CharAt(s, i + 2) = "-"
        THEN 2
        ELSE IF IsAsciiDigit(c1) /\ c1 # "0" /\ c2 = "-" THEN 1
        ELSE 0

\* the directive %d, (3[0-1]|[1-2]\d|0[1-9]|[1-9]| [1-9]), at the end of the
\* format: the number of characters of the first alternative that matches
\* at s[i], 0 when none does
DayLen(s, i) ==
    LET c1 == CharAt(s, i)
        c2 == CharAt(s, i + 1)
    IN  IF c1 = "3" /\ c2 \in {"0", "1"} THEN 2
        ELSE IF c1 \in {"1", "2"} /\ IsDigit(c2) THEN 2
        ELSE IF c1 = "0" /\ IsAsciiDigit(c2) /\ c2 # "0" THEN 2
        ELSE IF IsAsciiDigit(c1) /\ c1 # "0" THEN 1
        ELSE IF c1 = " " /\ IsAsciiDigit(c2) /\ c2 # "0" THEN 2
        ELSE 0

\* int() of the digits of s[i..j]; a leading space of %d counts for nothing
NumberAt(s, i, j) ==
    IF j = i THEN DigitValue(s[i])
    ELSE (IF s[i] = " " THEN 0 ELSE 10 * DigitValue(s[i])) + DigitValue(s[j])

\* calendar of the datetime module
is_leap(year) == year % 4 = 0 /\ (year % 100 # 0 \/ year % 400 = 0)

DaysInMonth == <<31, 28, 31, 30, 31, 30, 31, 31, 30, 31, 30, 31>>

days_in_month(year, month) ==
    IF month = 2 /\ is_leap(year) THEN 29 ELSE DaysInMonth[month]

DaysBeforeMonth == <<0, 31, 59, 90, 120, 151, 181, 212, 243, 273, 304, 334>>

days_before_month(year, month) ==
    DaysBeforeMonth[month] + (IF month > 2 /\ is_leap(year) THEN 1 ELSE 0)

days_before_year(year) ==
    LET y == year - 1
    IN  y * 365 + (y \div 4) - (y \div 100) + (y \div 400)

\* date.toordinal()
toordinal(date) ==
    days_before_year(date.year) + days_before_month(date.year, date.month) + date.day

\* the value strptime could not produce: it raised ValueError
ValueError == [year |-> 0, month |-> 0, day |-> 0]

\* datetime.strptime(s, '%Y-%m-%d'): four digits, "-", a month, "-", a day
\* and nothing after it; the year is at least 1 and the day exists in the
\* month. ValueError otherwise.
strptime(s) ==
    IF ~(Len(s) >= 5 /\ (\A k \in 1..4 : IsDigit(s[k])) /\ s[5] = "-") THEN ValueError
    ELSE LET ml == MonthLen(s, 6)
             dl == DayLen(s, 6 + ml + 1)
         IN  IF ml = 0 \/ dl = 0 THEN ValueError
             ELSE IF 6 + ml + dl # Len(s) THEN ValueError
             ELSE LET year == 1000 * DigitValue(s[1]) + 100 * DigitValue(s[2])
                              + 10 * DigitValue(s[3]) + DigitValue(s[4])
                      month == NumberAt(s, 6, 6 + ml - 1)
                      day == NumberAt(s, 6 + ml + 1, 6 + ml + dl)
                  IN  IF year < 1 \/ day > days_in_month(year, month) THEN ValueError
                      ELSE [year |-> year, month |-> month, day |-> day]

\* mutant: a date that cannot be parsed counts as up to date
needs_update_unparsed_is_fresh(as_of_date, update_delay_days, now) ==
    IF as_of_date = None \/ as_of_date = <<>> \/ strip(as_of_date) = <<>> THEN TRUE
    ELSE LET last_update == strptime(strip(as_of_date))
         IN  IF last_update = ValueError THEN FALSE
             ELSE toordinal(now) - toordinal(last_update) >= update_delay_days

\* mutant: a record updated on the day itself is already due
needs_update_strictly_older(as_of_date, update_delay_days, now) ==
    IF as_of_date = None \/ as_of_date = <<>> \/ strip(as_of_date) = <<>> THEN TRUE
    ELSE LET last_update == strptime(strip(as_of_date))
         IN  IF last_update = ValueError THEN TRUE
             ELSE toordinal(now) - toordinal(last_update) + 1 >= update_delay_days

\* now is the date of datetime.now(); last_update is a midnight, so the days
\* of the difference are the difference of the two dates' ordinals
needs_update(as_of_date, update_delay_days, now) ==
    IF as_of_date = None \/ as_of_date = <<>> \/ strip(as_of_date) = <<>> THEN TRUE
    ELSE LET last_update == strptime(strip(as_of_date))
         IN  IF last_update = ValueError THEN TRUE
             ELSE toordinal(now) - toordinal(last_update) >= update_delay_days

RECURSIVE Digits(_, _)
\* n written with the given number of digits
Digits(n, width) ==
    IF width = 0 THEN <<>>
    ELSE Digits(n \div 10, width - 1) \o <<DigitSeq[(n % 10) + 1]>>

RECURSIVE str(_)
\* str() of a natural number
str(n) == IF n < 10 THEN <<DigitSeq[n + 1]>> ELSE str(n \div 10) \o <<DigitSeq[(n % 10) + 1]>>

\* datetime.strftime('%y-%m-%d'): the year without its century
strftime_without_century(date) ==
    Digits(date.year % 100, 2) \o <<"-">> \o Digits(date.month, 2) \o <<"-">> \o Digits(date.day, 2)

\* datetime.strftime('%Y-%m-%d'): the C library writes %Y without padding,
\* %m and %d with two digits
strftime(date) ==
    str(date.year) \o <<"-">> \o Digits(date.month, 2) \o <<"-">> \o Digits(date.day, 2)

---------------------------------------------------------------------------
(* SpecDate: needs_update on date texts, staleness windows and clocks       *)

MaxDelayDays == 400

\* the staleness windows: the argument is any int
DelayDays == {-1, 0, 1, 7, MaxDelayDays}

\* the dates of datetime.now()
Clocks ==
    { [year |-> 2024, month |-> 2, day |-> 29],
      [year |-> 2024, month |-> 3, day |-> 1],
      [year |-> 2025, month |-> 2, day |-> 28] }

YearTexts == { <<"2","0","2","4">>, <<"2","0","2","5">>, <<"0","0","0","0">>, <<"2","4">> }
MonthTexts == { <<"0","2">>, <<"2">>, <<"1","2">>, <<"1","3">>, <<"0","0">>, <<"0","3">> }
DayTexts ==
    { <<"2","9">>, <<"0","1">>, <<"1">>, <<" ","1">>, <<"3","0">>, <<"3","1">>,
      <<"3","2">>, <<"0","0">>, <<"2","8">> }
Separators == { <<"-">>, <<"/">> }
Paddings == { <<>>, <<" ">> }
Trailers == { <<>>, <<" ">>, <<"x">> }

\* as_of_date values: blank texts, and texts put together from a year, a
\* month and a day, well-formed or not
\* 2024-02-29 with the year in full-width digits, and with a circled digit
Fullwidth_year_date == <<"U+FF12","U+FF10","U+FF12","U+FF14","-","0","2","-","2","9">>
Circled_digit_date == <<"2","0","2","U+2463","-","0","2","-","2","9">>

DateTexts ==
    { <<>>, <<" ">>, <<"\t", "\n">>, <<"t","o","d","a","y">>, Fullwidth_year_date, Circled_digit_date }
    \cup { p \o y \o sep \o m \o sep \o d \o t :
             p \in Paddings, y \in YearTexts, sep \in Separators,
             m \in MonthTexts, d \in DayTexts, t \in Trailers }

InitDate ==
    /\ nu_date \in DateTexts
    /\ nu_delay \in DelayDays
    /\ nu_now \in Clocks
    /\ nu_result = FALSE
    /\ nu_pc = "input"
    /\ NamesIdle /\ NormIdle /\ CsvIdle /\ FlowIdle /\ ExtractIdle

ApplyNeedsUpdate ==
    /\ nu_pc = "input"
    /\ nu_result' = needs_update(nu_date, nu_delay, nu_now)
    /\ nu_pc' = "done"
    /\ UNCHANGED <<nu_date, nu_delay, nu_now, namesVars, normVars, csvVars, flowVars, extractVars>>

NextDate == ApplyNeedsUpdate

SpecDate == InitDate /\ [][NextDate]_vars

---------------------------------------------------------------------------
(* The two scripts as processes: find_scholar_ids.py main, find_missing_ids *)
(* and manual_id_entry; update_citations.py main, update_citations and      *)
(* show_statistics                                                          *)

\* dict.get(key, '')
get(faculty, key) == IF key \in DOMAIN faculty THEN faculty[key] ELSE <<>>

\* str.isdigit()
isdigit(s) == s # <<>> /\ \A k \in 1..Len(s) : IsDigitChar(s[k])

\* faculty[key] = value: the key is added when the dict lacks it
setitem(faculty, key, value) ==
    [k \in DOMAIN faculty \cup {key} |-> IF k = key THEN value ELSE faculty[k]]

\* sys.get_int_max_str_digits(): the number of digits beyond which int() of
\* a text and str() of a number raise ValueError
int_max_str_digits == 4300

\* int(s) raises ValueError: a text for which isdigit() holds is refused
\* when one of its characters is no decimal digit, or when it has more than
\* int_max_str_digits digits
int_raises(s) == (\E k \in 1..Len(s) : ~IsDigit(s[k])) \/ Len(s) > int_max_str_digits

\* int() of a text of decimal digits, as the sequence of the digits of the
\* number without leading zeros (<<>> for zero): an int of Python has no
\* largest value
BigInt(s) ==
    CHOOSE digits \in
        { IF \A k \in 1..Len(v) : v[k] = 0 THEN <<>>
          ELSE SubSeq(v, CHOOSE k \in 1..Len(v) : v[k] # 0 /\ \A j \in 1..(k - 1) : v[j] = 0, Len(v)) :
          v \in { [k \in 1..Len(s) |-> DigitValue(s[k])] } } : TRUE

RECURSIVE BigValue(_)
\* the number with the given digits
BigValue(digits) ==
    IF digits = <<>> THEN 0
    ELSE 10 * BigValue(SubSeq(digits, 1, Len(digits) - 1)) + digits[Len(digits)]

\* int() of a text of decimal digits
int(s) == BigValue(BigInt(s))

\* a < b
BigLess(a, b) ==
    \/ Len(a) < Len(b)
    \/ /\ Len(a) = Len(b)
       /\ \E i \in 1..Len(a) : a[i] < b[i] /\ \A j \in 1..(i - 1) : a[j] = b[j]

\* 1 <= int(s) <= n
int_in_1_to(s, n) ==
    \E chosen \in {BigInt(s)} : \E last \in {BigInt(str(n))} :
        chosen # <<>> /\ ~BigLess(last, chosen)

\* the sums of the digits of a and b place by place, units first, with one
\* more place than the longer of the two
PlaceSums(a, b) ==
    [p \in 1..(1 + IF Len(a) > Len(b) THEN Len(a) ELSE Len(b)) |->
        (IF p <= Len(a) THEN a[Len(a) + 1 - p] ELSE 0)
        + (IF p <= Len(b) THEN b[Len(b) + 1 - p] ELSE 0)]

\* the digits, units first, of the number with the given place sums: a place
\* receives a carry when the nearest lower place whose sum is not 9 has a
\* sum of 10 or more
CarryDigits(sums) ==
    [p \in 1..Len(sums) |->
        (sums[p] + IF \E j \in 1..(p - 1) : /\ sums[p - j] # 9
                                            /\ sums[p - j] >= 10
                                            /\ \A k \in 1..(j - 1) : sums[p - k] = 9
                     THEN 1 ELSE 0) % 10]

\* a + b
BigAdd(a, b) ==
    CHOOSE total \in
        { IF units[Len(units)] # 0 THEN [i \in 1..Len(units) |-> units[Len(units) + 1 - i]]
          ELSE [i \in 1..(Len(units) - 1) |-> units[Len(units) - i]] :
          units \in { CarryDigits(sums) : sums \in { PlaceSums(a, b) } } } : TRUE

RECURSIVE BigSum(_, _, _)
\* sum(list[lo..hi])
BigSum(list, lo, hi) ==
    IF lo > hi THEN <<>>
    ELSE IF lo = hi THEN list[lo]
    ELSE CHOOSE total \in
            { BigAdd(left, right) : left \in { BigSum(list, lo, (lo + hi) \div 2) },
                                    right \in { BigSum(list, ((lo + hi) \div 2) + 1, hi) } } : TRUE

RECURSIVE BigTimes(_, _)
\* n * a
BigTimes(n, a) ==
    IF n = 0 THEN <<>>
    ELSE CHOOSE product \in
            { BigAdd(BigAdd(half, half), IF n % 2 = 1 THEN a ELSE <<>>) :
                half \in { BigTimes(n \div 2, a) } } : TRUE

\* 2^1024 - 2^970: the least whole number that is rounded beyond the largest
\* float
FloatOverflow ==
    << 1,7,9,7,6,9,3,1,3,4,8,6,2,3,1,5,8,0,7,9,3,7,2,8,9,7,1,4,0,5,
       3,0,3,4,1,5,0,7,9,9,3,4,1,3,2,7,1,0,0,3,7,8,2,6,9,3,6,1,7,3,
       7,7,8,9,8,0,4,4,4,9,6,8,2,9,2,7,6,4,7,5,0,9,4,6,6,4,9,0,1,7,
       9,7,7,5,8,7,2,0,7,0,9,6,3,3,0,2,8,6,4,1,6,6,9,2,8,8,7,9,1,0,
       9,4,6,5,5,5,5,4,7,8,5,1,9,4,0,4,0,2,6,3,0,6,5,7,4,8,8,6,7,1,
       5,0,5,8,2,0,6,8,1,9,0,8,9,0,2,0,0,0,7,0,8,3,8,3,6,7,6,2,7,3,
       8,5,4,8,4,5,8,1,7,7,1,1,5,3,1,7,6,4,4,7,5,7,3,0,2,7,0,0,6,9,
       8,5,5,5,7,1,3,6,6,9,5,9,6,2,2,8,4,2,9,1,4,8,1,9,8,6,0,8,3,4,
       9,3,6,4,7,5,2,9,2,7,1,9,0,7,4,1,6,8,4,4,4,3,6,5,5,1,0,7,0,4,
       3,4,2,7,1,1,5,5,9,6,9,9,5,0,8,0,9,3,0,4,2,8,8,0,1,7,7,9,0,4,
       1,7,4,4,9,7,7,9,2 >>

\* x / n raises OverflowError("integer division result too large for a
\* float") for n >= 1, and so does float(x) for n = 1: x is no less than
\* n * FloatOverflow, which a shorter number cannot be
division_overflows(x, n) ==
    Len(x) >= Len(FloatOverflow) /\ ~BigLess(x, BigTimes(n, FloatOverflow))

\* sorted(list)[k - 1]
sorted_at(list, k) ==
    list[CHOOSE i \in 1..Len(list) :
            /\ Cardinality({j \in 1..Len(list) : BigLess(list[j], list[i])}) < k
            /\ Cardinality({j \in 1..Len(list) : ~BigLess(list[i], list[j])}) >= k]

\* format(statistics.median(list), ',.0f') raises OverflowError: the median
\* of an odd number of values is the middle one, which the format turns
\* into a float; that of an even number is (low + high) / 2
median_overflows(list) ==
    IF Len(list) % 2 = 1
    THEN division_overflows(sorted_at(list, (Len(list) \div 2) + 1), 1)
    ELSE division_overflows(BigAdd(sorted_at(list, Len(list) \div 2),
                                   sorted_at(list, (Len(list) \div 2) + 1)), 2)

\* the prints of show_statistics about one list of numbers: the total with
\* its thousands separators (citations only), the average, the median, the
\* largest and the smallest value
print_statistics(list, with_total) ==
    CHOOSE status \in
        { IF with_total /\ Len(total) > int_max_str_digits THEN "ValueError"
          ELSE IF division_overflows(total, Len(list)) THEN "OverflowError"
          ELSE IF median_overflows(list) THEN "OverflowError"
          ELSE "ok" :
          total \in { BigSum(list, 1, Len(list)) } } : TRUE

\* "https://scholar.google.com/citations?user="
ProfileUrlPrefix ==
    <<"h","t","t","p","s",":","/","/","s","c","h","o","l","a","r",".","g","o","o","g","l","e",
      ".","c","o","m","/","c","i","t","a","t","i","o","n","s","?","u","s","e","r","=">>

UserParam == <<"u","s","e","r","=">>

\* the pattern [?&]user=([^&]+) matches at position p of url
UserParamAt(url, p) ==
    /\ p + 6 <= Len(url)
    /\ url[p] \in {"?", "&"}
    /\ SubSeq(url, p + 1, p + 5) = UserParam
    /\ url[p + 6] # "&"

RECURSIVE ParamEnd(_, _)
\* index of the last character of the run without "&" that starts at i
ParamEnd(url, i) == IF i < Len(url) /\ url[i + 1] # "&" THEN ParamEnd(url, i + 1) ELSE i

\* re.search of the pattern: the leftmost match, its group as long as possible
extract_scholar_id(url) ==
    LET starts == {p \in 1..Len(url) : UserParamAt(url, p)}
    IN  IF starts = {} THEN None
        ELSE LET p == SetMin(starts)
             IN  SubSeq(url, p + 6, ParamEnd(url, p + 6))

\* a search result as the loop of find_missing_ids uses it; match_quality is
\* "exact" or "good" for a verified web result, "" for a direct result
Result(scholar_id, name, url, match_quality) ==
    [scholar_id |-> scholar_id, name |-> name, url |-> url, match_quality |-> match_quality]

\* verify_profile_match with the name get_name_from_profile obtained from the
\* page (None when the fetch or the parse failed): the list of the one
\* verified result, or the empty list for None
verify_profile_match(search_name, profile_url, scholar_id, profile_name) ==
    IF profile_name = None \/ profile_name = <<>> THEN <<>>
    ELSE IF normalize_name(search_name) = normalize_name(profile_name)
         THEN <<Result(scholar_id, profile_name, profile_url, "exact")>>
    ELSE IF names_match(search_name, profile_name, DefaultThreshold)
         THEN <<Result(scholar_id, profile_name, profile_url, "good")>>
    ELSE <<>>

max_results == 5

RECURSIVE verify_search_results(_, _, _, _)
\* the loop of search_web_for_scholar over the search results: the verified
\* results and the number of profile pages fetched
verify_search_results(name, search_results, verified_results, fetched) ==
    IF search_results = <<>> \/ Len(verified_results) >= max_results
    THEN [results |-> verified_results, fetched |-> fetched]
    ELSE LET result == Head(search_results)
             scholar_id == extract_scholar_id(result.href)
             seen_scholar_ids == {verified_results[k].scholar_id : k \in 1..Len(verified_results)}
         IN  IF scholar_id = None \/ scholar_id \in seen_scholar_ids
             THEN verify_search_results(name, Tail(search_results), verified_results, fetched)
             ELSE verify_search_results(name, Tail(search_results),
                      verified_results \o verify_profile_match(name, result.href, scholar_id, result.page),
                      fetched + 1)

\* search_web_for_scholar on the results the search engine gave; an
\* exception of the search gives the same as no results
search_web_for_scholar(name, search_results) ==
    verify_search_results(name, search_results, <<>>, 0)

\* search_scholar_direct on the authors the query gave
search_scholar_direct(authors) ==
    [k \in 1..(IF Len(authors) < max_results THEN Len(authors) ELSE max_results) |->
        Result(authors[k].scholar_id, authors[k].name,
               IF authors[k].scholar_id # <<>> THEN ProfileUrlPrefix \o authors[k].scholar_id ELSE <<>>,
               "")]

\* show_statistics: how it ends. The counts strip scholar_id and citations
\* of every record (AttributeError on None), the percentages divide by the
\* number of records, and when a record has citations the two lists call
\* int() on every value for which isdigit() holds, record by record (the
\* h_index of a record is stripped first: AttributeError on None); then the
\* statistics of each list that is not empty are printed.
show_statistics(d) ==
    LET rows == 1..Len(d)
        value(k, key) == get(d[k], key)
        listed(k, key) == strip(value(k, key)) # <<>> /\ isdigit(value(k, key))
        refused(k, key) == listed(k, key) /\ int_raises(value(k, key))
        h_raises == {k \in rows : value(k, F_h_index) = None \/ refused(k, F_h_index)}
        numbers(key) ==
            LET listed_rows == SelectSeq([k \in rows |-> k], LAMBDA k : listed(k, key))
            IN  [j \in 1..Len(listed_rows) |-> BigInt(value(listed_rows[j], key))]
    IN  IF \E k \in rows : value(k, F_scholar_id) = None \/ value(k, F_citations) = None
        THEN "AttributeError"
        ELSE IF Len(d) = 0 THEN "ZeroDivisionError"
        ELSE IF \A k \in rows : strip(value(k, F_citations)) = <<>> THEN "ok"
        ELSE IF \E k \in rows : refused(k, F_citations) THEN "ValueError"
        ELSE IF h_raises # {}
             THEN IF value(SetMin(h_raises), F_h_index) = None THEN "AttributeError" ELSE "ValueError"
        ELSE CHOOSE status \in
                { IF citations_list # <<>> /\ print_statistics(citations_list, TRUE) # "ok"
                  THEN print_statistics(citations_list, TRUE)
                  ELSE IF h_index_list # <<>> THEN print_statistics(h_index_list, FALSE)
                  ELSE "ok" :
                  citations_list \in { numbers(F_citations) },
                  h_index_list \in { numbers(F_h_index) } } : TRUE

\* the value find_missing_ids can return: the list, or None
Returned(list) == [none |-> FALSE, list |-> list]
ReturnedNone == [none |-> TRUE, list |-> <<>>]

---------------------------------------------------------------------------
(* Spec: one run of either script on a CSV file                             *)

MaxFaculty == 2
MaxTicks == 1

Ann_Lee == <<"A","n","n"," ","L","e","e">>

\* the name of the record at each position of the file
FacultyNames == <<John_Smith, Ann_Lee, Jane_Smith>>

IdA == <<"A","b","C","1","2","3">>
IdB == <<"x","Y","z","7","8","9","_">>

\* the date of datetime.now() when the run starts
FirstDay == [year |-> 2024, month |-> 2, day |-> 29]

\* the day after a date
tomorrow(date) ==
    IF date.day < days_in_month(date.year, date.month)
    THEN [date EXCEPT !.day = date.day + 1]
    ELSE IF date.month < 12
         THEN [date EXCEPT !.month = date.month + 1, !.day = 1]
         ELSE [year |-> date.year + 1, month |-> 1, day |-> 1]

WeekBefore == <<"2","0","2","4","-","0","2","-","2","2">>

\* as_of_date = '2025-11-15': the date extract_faculty_data.py writes into
\* every record it finds metrics for
NotesDate == <<"2","0","2","5","-","1","1","-","1","5">>

\* as_of_date values of the file: none, the first day, a week before it, the
\* date the extraction writes, and a text that is no date
AsOfDates == { <<>>, strftime(FirstDay), WeekBefore, NotesDate, <<"n","/","a">> }

\* the records that can stand at position k of the file a script starts on.
\* The discovery script reads name and scholar_id only: its files vary in the
\* scholar_id (none, blank, present). The update script strips the
\* scholar_id and reads as_of_date: its files vary in both.
FacultyAt(k, for_script) ==
    { Record(FacultyNames[k], id, IF d = <<>> THEN <<>> ELSE <<"1","2">>,
             IF d = <<>> THEN <<>> ELSE <<"3">>, d) :
        id \in (IF for_script = "find" THEN { <<>>, <<" ">>, IdA } ELSE { <<>>, IdA }),
        d \in (IF for_script = "find" THEN { <<>>, WeekBefore } ELSE AsOfDates) }

RECURSIVE FacultyLists(_, _)
\* the lists of n records
FacultyLists(n, for_script) ==
    IF n = 0 THEN { <<>> }
    ELSE { Append(l, f) : l \in FacultyLists(n - 1, for_script), f \in FacultyAt(n, for_script) }

\* a file whose only row has just the name: DictReader gives None for the
\* other fields
ShortRowFile == writerow(fieldnames) \o John_Smith \o <<"\r", "\n">>

\* a file whose second row has a sixth field: DictReader keeps it under the
\* key None
LongRowFile(for_script) ==
    writerow(fieldnames)
        \o writerow(<<Ann_Lee, IF for_script = "find" THEN <<>> ELSE IdA, <<>>, <<>>, <<>>>>)
        \o writerow(<<John_Smith, IF for_script = "find" THEN <<>> ELSE IdA, <<>>, <<>>, <<>>, <<"x">>>>)

\* the files a run starts on: files the scripts wrote, a file with a short
\* row, a file with a long row, and the empty file
InputFiles(for_script) ==
    { save_faculty_data(l) : l \in UNION { FacultyLists(n, for_script) : n \in 0..MaxFaculty } }
    \cup { ShortRowFile, LongRowFile(for_script), <<>> }

FindArgs ==
    { [non_interactive |-> n, manual_only |-> m, stats_only |-> FALSE, update_delay_days |-> 7] :
        n \in BOOLEAN, m \in BOOLEAN }

UpdateArgs ==
    { [non_interactive |-> FALSE, manual_only |-> FALSE, stats_only |-> s, update_delay_days |-> d] :
        s \in BOOLEAN, d \in {0, 1, 7} }

\* two pieces of text pasted with a tab between them
TabbedId == <<"x","Y","z","\t","7","8","9">>

\* what the keyboard can give to input()
\* the circled digit one: str.isdigit() holds for it and int() refuses it
Circled_one == <<"U+2460">>

Responses ==
    { <<>>, <<"y">>, <<" ","Y"," ">>, <<"n">>, <<"s","k","i","p">>, <<"m","a","n","u","a","l">>,
      <<"N","o","n","e">>, <<"1">>, <<"2">>, <<"9">>, IdB, <<"a","b">>,
      <<"a","b"," ","c","d"," ","e","f">>, TabbedId, Circled_one }

\* a name with its first name cut to an initial: "J. Smith" for "John Smith"
Initialed(name) == <<name[1], ".">> \o SubSeq(name, Len(split(name)[1]) + 1, Len(name))

Hl_en == <<"&","h","l","=","e","n">>

\* an address with no user parameter
SearchPage == <<"h","t","t","p","s",":","/","/","x",".","o","r","g","/","?","q","=","1">>

\* one result of the search engine: its address and the name on the page
\* behind it (None when the page cannot be fetched)
Hit(href, page) == [href |-> href, page |-> page]

\* what the search engine can give for the query about a name: nothing; one
\* profile, under the name, under the name with an initial, under another
\* name, or that cannot be fetched; an address that is no profile; two
\* profiles; one profile twice; a profile that cannot be fetched and one
\* that can
SearchResultLists(name) ==
    { <<>>,
      << Hit(ProfileUrlPrefix \o IdA \o Hl_en, name) >>,
      << Hit(ProfileUrlPrefix \o IdB, Initialed(name)) >>,
      << Hit(ProfileUrlPrefix \o IdA, Jane_Smith) >>,
      << Hit(ProfileUrlPrefix \o IdA, None) >>,
      << Hit(SearchPage, name) >>,
      << Hit(ProfileUrlPrefix \o IdA \o Hl_en, name), Hit(ProfileUrlPrefix \o IdB, Initialed(name)) >>,
      << Hit(ProfileUrlPrefix \o IdA \o Hl_en, name), Hit(ProfileUrlPrefix \o IdA \o Hl_en, name) >>,
      << Hit(ProfileUrlPrefix \o IdA, None), Hit(ProfileUrlPrefix \o IdB, name) >> }

\* what scholarly.search_author can give for a name: nothing, the author,
\* another author, or both
AuthorLists(name) ==
    { <<>>,
      << [scholar_id |-> IdA, name |-> name] >>,
      << [scholar_id |-> IdB, name |-> Jane_Smith] >>,
      << [scholar_id |-> IdA, name |-> name], [scholar_id |-> IdB, name |-> Jane_Smith] >> }

\* what the scholarly library can do at a metrics lookup: raise in
\* search_author_id, raise in fill, or give the metrics of the profile
Lookups ==
    { [requests |-> <<"search_author_id">>, failed |-> TRUE, citations |-> 0, h_index |-> 0],
      [requests |-> <<"search_author_id", "fill">>, failed |-> TRUE, citations |-> 0, h_index |-> 0],
      [requests |-> <<"search_author_id", "fill">>, failed |-> FALSE, citations |-> 0, h_index |-> 0],
      [requests |-> <<"search_author_id", "fill">>, failed |-> FALSE, citations |-> 1250, h_index |-> 17] }

\* get_scholar_metrics on an answer of the library treats a failure as a
\* profile with no citations
get_scholar_metrics_zero_on_error(answer) ==
    << [citations |-> answer.citations, h_index |-> answer.h_index] >>

\* get_scholar_metrics on an answer of the library: <<>> for None, else the
\* dictionary in a sequence of one
get_scholar_metrics(answer) ==
    IF answer.failed
    THEN <<>>
    ELSE << [citations |-> answer.citations, h_index |-> answer.h_index] >>

Init ==
    /\ script \in {"find", "update"}
    /\ args \in (IF script = "find" THEN FindArgs ELSE UpdateArgs)
    /\ DDGS_AVAILABLE \in (IF script = "find" THEN BOOLEAN ELSE {TRUE})
    /\ SCHOLARLY_AVAILABLE \in (IF script = "find" THEN BOOLEAN ELSE {TRUE})
    /\ file \in InputFiles(script)
    /\ file0 = file
    /\ faculty_data = <<>>
    /\ pc = "main"
    /\ loop_i = 0
    /\ results = <<>>
    /\ manual_id = <<>>
    /\ updated_count = 0 /\ skipped_count = 0 /\ skipped_recent = 0 /\ error_count = 0
    /\ still_missing = <<>> /\ ambiguous_results = <<>>
    /\ first_query = TRUE
    /\ today = <<>>
    /\ clock = FirstDay
    /\ events = <<>>
    /\ lookup = <<>>
    /\ accept_log = <<>>
    /\ updated_data = ReturnedNone
    /\ exit_status = "running"
    /\ NamesIdle /\ NormIdle /\ CsvIdle /\ DateIdle /\ ExtractIdle

otherVars == <<namesVars, normVars, csvVars, dateVars, extractVars>>

\* sys.exit or the return of main, or an exception nobody catches
Exit(status) == pc' = "exit" /\ exit_status' = status

\* after load_faculty_data, the first .strip() on each scholar_id (a load
\* that raises ends the run before it)
StripFails(loaded) == \E k \in 1..Len(loaded) : get(loaded[k], F_scholar_id) = None

---------------------------------------------------------------------------
(* find_scholar_ids.py                                                      *)

interactive == ~args.non_interactive
use_automated == ~args.manual_only

\* main up to the call of find_missing_ids
FindMain ==
    /\ script = "find" /\ pc = "main"
    /\ LET loaded == load_faculty_data(file)
           missing == Cardinality({k \in 1..Len(loaded) : strip(get(loaded[k], F_scholar_id)) = <<>>})
       IN  /\ faculty_data' = IF loaded = LoadError THEN faculty_data ELSE loaded
           /\ args' = [args EXCEPT !.manual_only = @ \/ (~DDGS_AVAILABLE /\ ~SCHOLARLY_AVAILABLE)]
           /\ IF loaded = LoadError THEN Exit("_csv.Error") /\ loop_i' = loop_i
              ELSE IF StripFails(loaded) THEN Exit("AttributeError") /\ loop_i' = loop_i
              ELSE IF missing = 0 THEN Exit("ok") /\ loop_i' = loop_i
              ELSE pc' = "loop" /\ loop_i' = 1 /\ exit_status' = exit_status
    /\ UNCHANGED <<script, DDGS_AVAILABLE, SCHOLARLY_AVAILABLE, file, file0, results, manual_id,
                   updated_count, skipped_count, skipped_recent, error_count, still_missing,
                   ambiguous_results, first_query, today, clock, events, lookup, accept_log,
                   updated_data, otherVars>>

\* the end of one pass of the loop: the delay between searches. The list of
\* results of the pass is not read again.
EndOfPass(requests) ==
    /\ events' = events \o requests
                 \o (IF loop_i < Len(faculty_data) /\ use_automated THEN <<"sleep">> ELSE <<>>)
    /\ loop_i' = loop_i + 1
    /\ pc' = "loop"
    /\ results' = <<>>
    /\ manual_id' = <<>>
    /\ exit_status' = exit_status

\* an exception ends the run inside a pass of the loop, after the requests
\* of the pass
Raise(status, requests) ==
    /\ events' = events \o requests
    /\ Exit(status)
    /\ UNCHANGED <<loop_i, results, manual_id>>

\* faculty['scholar_id'] = ...; updated_count += 1; save_faculty_data, which
\* ends the run when it raises. The candidate is the search result taken, or
\* the manual entry as a result with no name.
Accept(candidate, requests, how) ==
    /\ faculty_data' = [faculty_data EXCEPT ![loop_i] = setitem(@, F_scholar_id, candidate.scholar_id)]
    /\ accept_log' = Append(accept_log, [index |-> loop_i, scholar_id |-> candidate.scholar_id,
                                         name |-> candidate.name, how |-> how])
    /\ updated_count' = updated_count + 1
    /\ file' = save_faculty_data(faculty_data')
    /\ UNCHANGED <<skipped_count, still_missing, ambiguous_results>>
    /\ IF save_raises(faculty_data')
       THEN Raise(save_error(faculty_data'), requests)
       ELSE EndOfPass(requests)

\* the record is skipped, and an ambiguous one ends the loop
Skip_ambiguous_ends_loop(ambiguous, requests, found) ==
    /\ skipped_count' = skipped_count + 1
    /\ still_missing' = Append(still_missing, faculty_data[loop_i][F_name])
    /\ ambiguous_results' =
          IF ambiguous
          THEN Append(ambiguous_results,
                      [name |-> faculty_data[loop_i][F_name],
                       url_list |-> [k \in 1..Len(found) |-> <<found[k].url, found[k].name>>]])
          ELSE ambiguous_results
    /\ UNCHANGED <<faculty_data, file, updated_count, accept_log>>
    /\ events' = events \o requests
    /\ loop_i' = IF ambiguous THEN Len(faculty_data) + 1 ELSE loop_i + 1
    /\ pc' = "loop"
    /\ results' = <<>>
    /\ manual_id' = <<>>
    /\ exit_status' = exit_status

\* the record is skipped and counted, and its name is listed as still
\* missing only when it was not ambiguous
Skip_ambiguous_not_listed(ambiguous, requests, found) ==
    /\ skipped_count' = skipped_count + 1
    /\ still_missing' = IF ambiguous THEN still_missing
                        ELSE Append(still_missing, faculty_data[loop_i][F_name])
    /\ ambiguous_results' =
          IF ambiguous
          THEN Append(ambiguous_results,
                      [name |-> faculty_data[loop_i][F_name],
                       url_list |-> [k \in 1..Len(found) |-> <<found[k].url, found[k].name>>]])
          ELSE ambiguous_results
    /\ UNCHANGED <<faculty_data, file, updated_count, accept_log>>
    /\ EndOfPass(requests)

\* skipped_count += 1; still_missing.append(name), and for several results
\* that were not resolved ambiguous_results.append((name, url_list))
Skip(ambiguous, requests, found) ==
    /\ skipped_count' = skipped_count + 1
    /\ still_missing' = Append(still_missing, faculty_data[loop_i][F_name])
    /\ ambiguous_results' =
          IF ambiguous
          THEN Append(ambiguous_results,
                      [name |-> faculty_data[loop_i][F_name],
                       url_list |-> [k \in 1..Len(found) |-> <<found[k].url, found[k].name>>]])
          ELSE ambiguous_results
    /\ UNCHANGED <<faculty_data, file, updated_count, accept_log>>
    /\ EndOfPass(requests)

\* the pass waits at an input()
Ask(prompt, requests, found) ==
    /\ pc' = prompt
    /\ results' = found
    /\ events' = events \o requests
    /\ UNCHANGED <<faculty_data, file, loop_i, manual_id, updated_count, skipped_count, still_missing,
                   ambiguous_results, accept_log, exit_status>>

findFrame ==
    <<script, args, DDGS_AVAILABLE, SCHOLARLY_AVAILABLE, file0, skipped_recent, error_count,
      first_query, today, clock, lookup, updated_data, otherVars>>

\* every record is searched for, with or without a scholar_id
has_scholar_id_never(faculty) == FALSE

\* "if scholar_id: continue", on the stripped scholar_id of the record
has_scholar_id(faculty) == strip(get(faculty, F_scholar_id)) # <<>>

\* one pass of the loop of find_missing_ids, up to its end or its first input()
SearchFaculty ==
    /\ script = "find" /\ pc = "loop" /\ loop_i <= Len(faculty_data)
    /\ IF has_scholar_id(faculty_data[loop_i])
       THEN /\ loop_i' = loop_i + 1
            /\ UNCHANGED <<faculty_data, file, pc, results, manual_id, updated_count, skipped_count,
                           still_missing, ambiguous_results, events, accept_log, exit_status>>
       ELSE IF F_name \notin DOMAIN faculty_data[loop_i]
       THEN \* name = faculty['name'] raises KeyError
            /\ Raise("KeyError", <<>>)
            /\ UNCHANGED <<faculty_data, file, updated_count, skipped_count, still_missing,
                           ambiguous_results, accept_log>>
       ELSE \E search_results \in (IF use_automated /\ DDGS_AVAILABLE THEN SearchResultLists(faculty_data[loop_i][F_name]) ELSE {<<>>}) :
            \E web \in { IF use_automated /\ DDGS_AVAILABLE
                          THEN search_web_for_scholar(faculty_data[loop_i][F_name], search_results)
                          ELSE [results |-> <<>>, fetched |-> 0] } :
            \E direct \in { use_automated /\ web.results = <<>> /\ SCHOLARLY_AVAILABLE } :
            \E authors \in (IF direct THEN AuthorLists(faculty_data[loop_i][F_name]) ELSE {<<>>}) :
            \E found \in { IF direct THEN search_scholar_direct(authors) ELSE web.results } :
            \E requests \in { (IF use_automated /\ DDGS_AVAILABLE
                                THEN <<"search_web">> \o [k \in 1..web.fetched |-> "fetch_profile"]
                                ELSE <<>>)
                               \o (IF direct THEN <<"search_author">> ELSE <<>>) } :
                /\ IF found # <<>>
                   THEN IF Len(found) = 1 /\ interactive
                        THEN IF names_match(faculty_data[loop_i][F_name], found[1].name, 95)
                             THEN Ask("accept", requests, found)
                             ELSE Ask("correct", requests, found)
                        ELSE IF Len(found) > 1
                             THEN IF interactive
                                  THEN Ask("select", requests, found)
                                  ELSE Skip(TRUE, requests, found)
                             ELSE Accept(found[1], requests, "auto")
                   ELSE IF interactive
                        THEN Ask("manual", requests, found)
                        ELSE Skip(FALSE, requests, found)
    /\ UNCHANGED findFrame

\* "Accept this profile? (Y/n/skip/manual) [Y]"
AnswerAccept ==
    /\ script = "find" /\ pc = "accept"
    /\ \E typed \in Responses :
         LET response == lower(strip(typed))
         IN  IF response = <<>> \/ response = <<"y">>
             THEN Accept(results[1], <<>>, "prompt")
             ELSE IF response = <<"s","k","i","p">>
                  THEN Skip(FALSE, <<>>, results)
                  ELSE Ask("manual", <<>>, results)
    /\ UNCHANGED findFrame

\* "Is this correct? (y/n/skip/manual)"
AnswerCorrect ==
    /\ script = "find" /\ pc = "correct"
    /\ \E typed \in Responses :
         LET response == lower(strip(typed))
         IN  IF response = <<"y">>
             THEN Accept(results[1], <<>>, "prompt")
             ELSE IF response = <<"s","k","i","p">>
                  THEN Skip(FALSE, <<>>, results)
                  ELSE Ask("manual", <<>>, results)
    /\ UNCHANGED findFrame

\* "Select 1-n, 'n' for none, 'manual' for manual entry, or 'skip'"
AnswerSelect ==
    /\ script = "find" /\ pc = "select"
    /\ \E typed \in Responses :
         LET response == lower(strip(typed))
         IN  IF response = <<"n">> \/ response = <<"s","k","i","p">>
             THEN Skip(TRUE, <<>>, results)
             ELSE IF response = <<"m","a","n","u","a","l">>
                  THEN Ask("manual", <<>>, results)
                  ELSE IF isdigit(response) /\ int_raises(response)
                       THEN /\ Raise("ValueError", <<>>)
                            /\ UNCHANGED <<faculty_data, file, updated_count, skipped_count,
                                           still_missing, ambiguous_results, accept_log>>
                  ELSE IF isdigit(response) /\ int_in_1_to(response, Len(results))
                       THEN Accept(results[int(response)], <<>>, "select")
                       ELSE Ask("select", <<>>, results)
    /\ UNCHANGED findFrame

\* manual_id_entry: "Enter scholar_id (or 'skip' to skip, 'none' if no profile)"
AnswerManual ==
    /\ script = "find" /\ pc = "manual"
    /\ \E typed \in Responses :
         LET response == strip(typed)
         IN  IF lower(response) = <<"s","k","i","p">> \/ lower(response) = <<"n","o","n","e">>
             THEN Skip(FALSE, <<>>, results)
             ELSE IF response # <<>> /\ Len(response) > 5 /\ " " \notin Range(response)
                  THEN /\ pc' = "confirm"
                       /\ manual_id' = response
                       /\ UNCHANGED <<faculty_data, file, loop_i, results, events, updated_count, skipped_count,
                                      still_missing, ambiguous_results, accept_log, exit_status>>
                  ELSE Ask("manual", <<>>, results)
    /\ UNCHANGED findFrame

\* manual_id_entry: "Is this correct? (y/n)", and what the caller does with
\* the scholar_id that is returned
AnswerConfirm ==
    /\ script = "find" /\ pc = "confirm"
    /\ \E typed \in Responses :
         IF lower(strip(typed)) = <<"y">>
         THEN Accept(Result(manual_id, <<>>, <<>>, ""), <<>>, "manual")
         ELSE /\ pc' = "manual"
              /\ manual_id' = <<>>
              /\ UNCHANGED <<faculty_data, file, loop_i, results, events, updated_count, skipped_count,
                             still_missing, ambiguous_results, accept_log, exit_status>>
    /\ UNCHANGED findFrame

\* the end of find_missing_ids (the return is inside "if ambiguous_results:")
\* and the rest of main: save_faculty_data opens the file for writing, writes
\* the header, and writerows(None) raises TypeError
FindFinish ==
    /\ script = "find" /\ pc = "loop" /\ loop_i > Len(faculty_data)
    /\ updated_data' = IF ambiguous_results # <<>> THEN Returned(faculty_data) ELSE ReturnedNone
    /\ IF updated_data'.none
       THEN file' = writerow(fieldnames) /\ Exit("TypeError")
       ELSE /\ file' = save_faculty_data(updated_data'.list)
            /\ Exit(IF save_raises(updated_data'.list) THEN save_error(updated_data'.list) ELSE "ok")
    /\ UNCHANGED <<script, args, DDGS_AVAILABLE, SCHOLARLY_AVAILABLE, file0, faculty_data, loop_i, results,
                   manual_id, updated_count, skipped_count, skipped_recent, error_count,
                   still_missing, ambiguous_results, first_query, today, clock, events, lookup,
                   accept_log, otherVars>>

---------------------------------------------------------------------------
(* update_citations.py                                                      *)

\* main up to "Continue? (y/n)"
UpdateMain ==
    /\ script = "update" /\ pc = "main"
    /\ LET loaded == load_faculty_data(file)
           with_scholar_id == {k \in 1..Len(loaded) : strip(get(loaded[k], F_scholar_id)) # <<>>}
           needs_updating == {k \in with_scholar_id :
                                needs_update(get(loaded[k], F_as_of_date), args.update_delay_days, clock)}
       IN  /\ faculty_data' = IF loaded = LoadError THEN faculty_data ELSE loaded
           /\ IF loaded = LoadError THEN Exit("_csv.Error")
              ELSE IF StripFails(loaded) THEN Exit("AttributeError")
              ELSE IF args.stats_only THEN Exit(show_statistics(loaded))
              ELSE IF with_scholar_id = {} THEN Exit("ok")
              ELSE IF needs_updating = {} THEN Exit("ok")
              ELSE pc' = "continue" /\ exit_status' = exit_status
    /\ UNCHANGED <<script, args, DDGS_AVAILABLE, SCHOLARLY_AVAILABLE, file, file0, loop_i, results,
                   manual_id, updated_count, skipped_count, skipped_recent, error_count,
                   still_missing, ambiguous_results, first_query, today, clock, events, lookup,
                   accept_log, updated_data, otherVars>>

\* "Continue? (y/n)" and the start of update_citations
AnswerContinue ==
    /\ script = "update" /\ pc = "continue"
    /\ \E typed \in Responses :
         IF lower(strip(typed)) # <<"y">>
         THEN Exit("ok") /\ UNCHANGED <<loop_i, today>>
         ELSE /\ pc' = "loop" /\ loop_i' = 1 /\ exit_status' = exit_status
              /\ today' = strftime(clock)
    /\ UNCHANGED <<script, args, DDGS_AVAILABLE, SCHOLARLY_AVAILABLE, file, file0, faculty_data, results,
                   manual_id, updated_count, skipped_count, skipped_recent, error_count,
                   still_missing, ambiguous_results, first_query, clock, events, lookup, accept_log,
                   updated_data, otherVars>>

\* one pass of the loop of update_citations
UpdateFaculty ==
    /\ script = "update" /\ pc = "loop" /\ loop_i <= Len(faculty_data)
    /\ LET faculty == faculty_data[loop_i]
       IN  IF F_name \notin DOMAIN faculty
           THEN \* name = faculty['name'] raises KeyError
                /\ Exit("KeyError")
                /\ UNCHANGED <<faculty_data, file, loop_i, updated_count, skipped_count, skipped_recent,
                               error_count, first_query, events, lookup>>
           ELSE IF strip(get(faculty, F_scholar_id)) = <<>>
           THEN /\ skipped_count' = skipped_count + 1
                /\ loop_i' = loop_i + 1
                /\ UNCHANGED <<faculty_data, file, updated_count, skipped_recent, error_count, first_query,
                               events, lookup, pc, exit_status>>
           ELSE IF ~needs_update(get(faculty, F_as_of_date), args.update_delay_days, clock)
           THEN /\ skipped_recent' = skipped_recent + 1
                /\ loop_i' = loop_i + 1
                /\ UNCHANGED <<faculty_data, file, updated_count, skipped_count, error_count, first_query,
                               events, lookup, pc, exit_status>>
           ELSE \E answer \in Lookups :
                \E metrics \in { get_scholar_metrics(answer) } :
                /\ events' = events \o (IF first_query THEN <<>> ELSE <<"sleep">>) \o answer.requests
                /\ lookup' = <<answer>>
                /\ IF metrics # <<>>
                   THEN /\ faculty_data' = [faculty_data EXCEPT ![loop_i] =
                                      setitem(setitem(setitem(@, F_citations, str(metrics[1].citations)),
                                                      F_h_index, str(metrics[1].h_index)),
                                              F_as_of_date, today)]
                        /\ file' = save_faculty_data(faculty_data')
                        /\ IF save_raises(faculty_data')
                           THEN /\ Exit(save_error(faculty_data'))
                                /\ UNCHANGED <<loop_i, updated_count, first_query>>
                           ELSE /\ updated_count' = updated_count + 1
                                /\ first_query' = FALSE
                                /\ loop_i' = loop_i + 1
                                /\ UNCHANGED <<pc, exit_status>>
                        /\ UNCHANGED <<skipped_count, skipped_recent, error_count>>
                   ELSE /\ error_count' = error_count + 1
                        /\ first_query' = FALSE
                        /\ loop_i' = loop_i + 1
                        /\ UNCHANGED <<faculty_data, file, updated_count, skipped_count, skipped_recent,
                                       pc, exit_status>>
    /\ UNCHANGED <<script, args, DDGS_AVAILABLE, SCHOLARLY_AVAILABLE, file0, results, manual_id,
                   still_missing, ambiguous_results, today, clock, accept_log, updated_data,
                   otherVars>>

\* the end of update_citations and the rest of main: the final save and
\* show_statistics
UpdateFinish ==
    /\ script = "update" /\ pc = "loop" /\ loop_i > Len(faculty_data)
    /\ updated_data' = Returned(faculty_data)
    /\ file' = save_faculty_data(faculty_data)
    /\ Exit(IF save_raises(faculty_data) THEN save_error(faculty_data) ELSE show_statistics(faculty_data))
    /\ UNCHANGED <<script, args, DDGS_AVAILABLE, SCHOLARLY_AVAILABLE, file0, faculty_data, loop_i, results,
                   manual_id, updated_count, skipped_count, skipped_recent, error_count,
                   still_missing, ambiguous_results, first_query, today, clock, events, lookup,
                   accept_log, otherVars>>

\* midnight passes while the update script runs (the discovery script never
\* reads the clock)
Tick ==
    /\ script = "update" /\ pc # "exit"
    /\ toordinal(clock) - toordinal(FirstDay) < MaxTicks
    /\ clock' = tomorrow(clock)
    /\ UNCHANGED <<script, args, DDGS_AVAILABLE, SCHOLARLY_AVAILABLE, file, file0, faculty_data, pc, loop_i,
                   results, manual_id, updated_count, skipped_count, skipped_recent, error_count,
                   still_missing, ambiguous_results, first_query, today, events, lookup, accept_log,
                   updated_data, exit_status, otherVars>>

Next ==
    \/ FindMain \/ SearchFaculty \/ AnswerAccept \/ AnswerCorrect \/ AnswerSelect
    \/ AnswerManual \/ AnswerConfirm \/ FindFinish
    \/ UpdateMain \/ AnswerContinue \/ UpdateFaculty \/ UpdateFinish \/ Tick

Spec == Init /\ [][Next]_vars

---------------------------------------------------------------------------
(* extract_faculty_data.py: extract_faculty_data, save_to_csv and the main  *)
(* block, on the paragraphs of a document                                   *)

\* str.startswith(prefix)
startswith(text, prefix) ==
    Len(text) >= Len(prefix) /\ SubSeq(text, 1, Len(prefix)) = prefix

\* the section headers a faculty name cannot start with
SectionHeaders ==
    { <<"C","u","r","r","e","n","t"," ","A","p","p","o","i","n","t","m","e","n","t">>,
      <<"P","h","D"," ","Y","e","a","r">>,
      <<"F","i","e","l","d","s"," ","o","f"," ","I","n","t","e","r","e","s","t">>,
      <<"S","h","o","r","t"," ","B","i","o",":">>,
      <<"E","x","a","m","p","l","e","s"," ","o","f"," ","P","u","b","l","i","c","a","t","i","o","n","s">>,
      <<"G","o","o","g","l","e"," ","S","c","h","o","l","a","r">>,
      <<"E","x","t","e","r","n","a","l"," ","F","u","n","d","i","n","g">>,
      <<"P","u","b","l","i","c"," ","O","u","t","r","e","a","c","h",":">>,
      <<"N","o","t","e","s",":">>,
      <<"C","o","r","n","e","l","l"," ","D","e","p","a","r","t","m","e","n","t">>,
      <<"F","a","c","u","l","t","y"," ","S","u","m","m","a","r","i","e","s">> }

\* the three characters the script tests for where a bullet was meant, each
\* named by its code point
BulletPrefix == <<"U+00E2", "U+20AC", "U+00A2">>

\* the length a faculty name stays under
MaxNameLen == 100

\* the outer test of the loop: the paragraph may be a faculty name
may_be_name(text) ==
    /\ \A h \in SectionHeaders : ~startswith(text, h)
    /\ Len(text) < MaxNameLen
    /\ ~IsDigitChar(text[1])
    /\ ~startswith(text, <<"\"">>)
    /\ ~startswith(text, BulletPrefix)

\* [A-Z][a-z]+
IsCapitalizedWord(w) ==
    /\ Len(w) >= 2
    /\ w[1] \in Range(UpperSeq)
    /\ \A k \in 2..Len(w) : w[k] \in Range(LowerSeq)

\* re.match(r'^[A-Z][a-z]+(\s+[A-Z][a-z]+)+$', text) on a stripped text: two
\* or more capitalized words with whitespace between them
is_name_heading(text) ==
    \E words \in { split(text) } :
        /\ Len(words) >= 2
        /\ \A k \in 1..Len(words) : IsCapitalizedWord(words[k])

CitationsColon == <<"C","i","t","a","t","i","o","n","s",":">>
HIndexColon == <<"H","-","i","n","d","e","x",":">>
MetricsPrefix == <<"G","o","o","g","l","e"," ","S","c","h","o","l","a","r"," ","C","i","t","a","t","i","o","n","s",":">>

\* the classes \s, \d and [\d,] of the pattern
SpaceChars == "\\s"
DigitChars == "\\d"
DigitOrCommaChars == "[\\d,]"

\* the character is of the class
InClass(c, class) ==
    CASE class = SpaceChars -> IsSpace(c)
      [] class = DigitChars -> IsDigit(c)
      [] class = DigitOrCommaChars -> IsDigit(c) \/ c = ","

\* the first index from i on whose character is not of the class, or
\* Len(text) + 1: where a greedy run that starts at i ends
RunEnd(text, i, run_chars) ==
    SetMin({ k \in i..(Len(text) + 1) : k > Len(text) \/ ~InClass(text[k], run_chars) })

NoMatch == <<>>

\* the word stands in the text at index p
OccursAt(text, p, word) ==
    p + Len(word) - 1 <= Len(text) /\ SubSeq(text, p, p + Len(word) - 1) = word

\* the attempt of Citations:\s*([\d,]+)\s*.*H-index:\s*(\d+) at index p:
\* the two groups in a sequence of one, or NoMatch. Every quantifier is
\* greedy: group 1 is the whole run of digits and commas, \s* takes the
\* whole run of whitespace, .* reaches the last H-index: it can reach
\* without crossing a newline, and group 2 is the whole run of digits.
metrics_match_at(text, p) ==
    IF ~OccursAt(text, p, CitationsColon) THEN NoMatch
    ELSE LET g1 == RunEnd(text, p + Len(CitationsColon), SpaceChars)
             g1_end == RunEnd(text, g1, DigitOrCommaChars)
             rest == RunEnd(text, g1_end, SpaceChars)
             hs == { h \in g1_end..Len(text) :
                       /\ OccursAt(text, h, HIndexColon)
                       /\ \A k \in rest..(h - 1) : text[k] # "\n"
                       /\ RunEnd(text, h + Len(HIndexColon), SpaceChars) <= Len(text)
                       /\ IsDigit(text[RunEnd(text, h + Len(HIndexColon), SpaceChars)]) }
             h == CHOOSE x \in hs : \A y \in hs : y <= x
             g2 == RunEnd(text, h + Len(HIndexColon), SpaceChars)
         IN  IF g1_end = g1 \/ hs = {} THEN NoMatch
             ELSE << [citations |-> SubSeq(text, g1, g1_end - 1),
                      h_index |-> SubSeq(text, g2, RunEnd(text, g2, DigitChars) - 1)] >>

\* re.search: the match at the leftmost index that has one
metrics_search(text) ==
    LET found == { p \in 1..Len(text) : metrics_match_at(text, p) # NoMatch }
    IN  IF found = {} THEN NoMatch ELSE metrics_match_at(text, SetMin(found))

\* str.replace(',', '')
remove_commas(s) == SelectSeq(s, LAMBDA c : c # ",")

---------------------------------------------------------------------------
(* SpecExtract: one run of extract_faculty_data.py on a document            *)

MaxParagraphs == 4
MaxExtractTicks == 1

Whitespace_only ==
    <<" "," ">>

Ann_Lee_heading ==
    <<" ","A","n","n"," ","L","e","e">>

John_Smith_heading ==
    <<"J","o","h","n"," "," ","S","m","i","t","h"," ">>

Notes_paragraph ==
    <<"N","o","t","e","s",":"," ","a","s"," ","o","f"," ","2","0","2","5">>

Lower_case_paragraph ==
    <<"a","n","n"," ","l","e","e">>

Metrics_paragraph ==
    <<"G","o","o","g","l","e"," ","S","c","h","o","l","a","r"," ","C","i",
      "t","a","t","i","o","n","s",":"," ","2",",","1","6","3"," "," "," ",
      "G","o","o","g","l","e"," ","S","c","h","o","l","a","r"," ","H","-",
      "i","n","d","e","x",":"," ","1","6">>

Metrics_unreadable ==
    <<"G","o","o","g","l","e"," ","S","c","h","o","l","a","r"," ","C","i",
      "t","a","t","i","o","n","s",":"," ","n","/","a">>

Metrics_small ==
    <<"G","o","o","g","l","e"," ","S","c","h","o","l","a","r"," ","C","i",
      "t","a","t","i","o","n","s",":"," ","5"," ","H","-","i","n","d","e",
      "x",":"," ","1">>

\* para.text of the paragraphs a document can hold
ParagraphTexts ==
    { Whitespace_only,
      Ann_Lee_heading,
      John_Smith_heading,
      Notes_paragraph,
      Lower_case_paragraph,
      Metrics_paragraph,
      Metrics_unreadable,
      Metrics_small }

RECURSIVE Documents(_)
\* the documents of n paragraphs
Documents(n) ==
    IF n = 0 THEN { <<>> }
    ELSE { Append(d, t) : d \in Documents(n - 1), t \in ParagraphTexts }

\* the day before the date the script writes
ExtractFirstDay == [year |-> 2025, month |-> 11, day |-> 14]

InitExtract ==
    /\ paragraphs \in UNION { Documents(n) : n \in 0..MaxParagraphs }
    /\ para_i = 1
    /\ current_faculty = <<>>
    /\ faculty_list = <<>>
    /\ csv_out = <<>>
    /\ ex_pc = "loop"
    /\ clock = ExtractFirstDay
    /\ NamesIdle /\ NormIdle /\ CsvIdle /\ DateIdle /\ RunIdle

\* writer.writeheader() and writer.writerow(faculty) for each record, on a
\* file opened with newline=''
save_to_csv(list) == writerow(fieldnames) \o writerows(list, 1)

\* one pass of the loop over doc.paragraphs
ExtractParagraph ==
    /\ ex_pc = "loop" /\ para_i <= Len(paragraphs)
    /\ \E text \in { strip(paragraphs[para_i]) } :
         IF text = <<>>
         THEN UNCHANGED <<current_faculty, faculty_list>>
         ELSE IF may_be_name(text)
         THEN IF is_name_heading(text)
              THEN /\ faculty_list' = IF current_faculty # <<>>
                                      THEN Append(faculty_list, current_faculty[1])
                                      ELSE faculty_list
                   /\ current_faculty' = << Record(text, <<>>, <<>>, <<>>, <<>>) >>
              ELSE UNCHANGED <<current_faculty, faculty_list>>
         ELSE IF startswith(text, MetricsPrefix) /\ current_faculty # <<>>
         THEN \E match \in { metrics_search(text) } :
                /\ current_faculty' =
                      IF match # NoMatch
                      THEN << [current_faculty[1] EXCEPT
                                 ![F_citations] = remove_commas(match[1].citations),
                                 ![F_h_index] = match[1].h_index,
                                 ![F_as_of_date] = NotesDate] >>
                      ELSE current_faculty
                /\ faculty_list' = faculty_list
         ELSE UNCHANGED <<current_faculty, faculty_list>>
    /\ para_i' = para_i + 1
    /\ UNCHANGED <<paragraphs, csv_out, ex_pc, namesVars, normVars, csvVars, dateVars, flowVars>>

\* the end of extract_faculty_data without the append of the record that is
\* still being filled
ExtractFinish_forgets_last ==
    /\ ex_pc = "loop" /\ para_i > Len(paragraphs)
    /\ faculty_list' = faculty_list
    /\ csv_out' = save_to_csv(faculty_list')
    /\ ex_pc' = "exit"
    /\ UNCHANGED <<paragraphs, para_i, current_faculty, namesVars, normVars, csvVars, dateVars,
                   flowVars>>

\* the end of extract_faculty_data, and save_to_csv in the main block
ExtractFinish ==
    /\ ex_pc = "loop" /\ para_i > Len(paragraphs)
    /\ faculty_list' = IF current_faculty # <<>>
                       THEN Append(faculty_list, current_faculty[1])
                       ELSE faculty_list
    /\ csv_out' = save_to_csv(faculty_list')
    /\ ex_pc' = "exit"
    /\ UNCHANGED <<paragraphs, para_i, current_faculty, namesVars, normVars, csvVars, dateVars,
                   flowVars>>

\* midnight passes while the extraction runs (the script never reads the
\* clock)
ExtractTick ==
    /\ ex_pc = "loop"
    /\ toordinal(clock) - toordinal(ExtractFirstDay) < MaxExtractTicks
    /\ clock' = tomorrow(clock)
    /\ UNCHANGED <<script, args, DDGS_AVAILABLE, SCHOLARLY_AVAILABLE, file, file0, faculty_data, pc, loop_i,
                   results, manual_id, updated_count, skipped_count, skipped_recent, error_count,
                   still_missing, ambiguous_results, first_query, today, events, lookup, accept_log,
                   updated_data, exit_status, otherVars>>

NextExtract == ExtractParagraph \/ ExtractFinish \/ ExtractTick

SpecExtract == InitExtract /\ [][NextExtract]_vars

---------------------------------------------------------------------------
(* SpecTools: one run of any of the three scripts                           *)

InitTools == Init \/ InitExtract

NextTools == Next \/ NextExtract

SpecTools == InitTools /\ [][NextTools]_vars


---------------------------------------------------------------------------
(* Claims about the name functions                                          *)

Last(s) == s[Len(s)]

MiddleTokens(parts) == Range(SubSeq(parts, 2, Len(parts) - 1))

\* one token is a single character equal to the other's first character
InitialCompatible(x, y) ==
    \/ (Len(x) = 1 /\ x[1] = y[1])
    \/ (Len(y) = 1 /\ y[1] = x[1])

\* the rule's first-token equivalence
FirstTokensEquivalent(f, g) ==
    \/ f = g
    \/ InitialCompatible(f, g)
    \/ 5 * ratio_num(f, g) >= 4 * ratio_den(f, g)

\* the rule's conditions on two token lists whose names are not equal
RuleOnTokens(p, q) ==
    /\ Last(p) = Last(q)
    /\ FirstTokensEquivalent(p[1], q[1])
    /\ (MiddleTokens(p) # {} /\ MiddleTokens(q) # {}
            => \E x \in MiddleTokens(p) : \E y \in MiddleTokens(q) :
                    x = y \/ InitialCompatible(x, y))

\* the rule as the specification words it
SpecifiedRule(a, b) ==
    LET p == split(normalize_name(a))
        q == split(normalize_name(b))
    IN  \/ normalize_name(a) = normalize_name(b)
        \/ (p # <<>> /\ q # <<>> /\ RuleOnTokens(p, q))

\* the rule with the code's requirement of a first and a last name
RuleForFullNames(a, b) ==
    LET p == split(normalize_name(a))
        q == split(normalize_name(b))
    IN  \/ normalize_name(a) = normalize_name(b)
        \/ (Len(p) >= 2 /\ Len(q) >= 2 /\ RuleOnTokens(p, q))

\* C4 as stated: names_match returns what the specified rule gives for every
\* pair of names.
C4_ReturnsSpecifiedRule ==
    nm_pc = "done" => (matched <=> SpecifiedRule(nm_search, nm_result))

\* C4 amended: names_match returns what the rule gives when unequal names
\* are required to have at least two tokens each (a first and a last name);
\* unequal names of which one has a single token never match.
C4_ReturnsRuleForFullNames ==
    nm_pc = "done" => (matched <=> RuleForFullNames(nm_search, nm_result))

\* a pair accepted on last token, first token and middle tokens together
C4_Witness ==
    /\ nm_pc = "done" /\ matched
    /\ normalize_name(nm_search) # normalize_name(nm_result)
    /\ MiddleTokens(split(normalize_name(nm_search))) # {}
    /\ MiddleTokens(split(normalize_name(nm_result))) # {}

\* C5: without middle tokens and with equal last tokens, an initial is
\* accepted against a full first name that starts with it, and two full
\* first names that differ with similarity below 0.8 are rejected.
C5_InitialAcceptedDistinctRejected ==
    nm_pc = "done" =>
        LET p == split(normalize_name(nm_search))
            q == split(normalize_name(nm_result))
        IN  (Len(p) = 2 /\ Len(q) = 2 /\ p[2] = q[2]) =>
              /\ (Len(p[1]) = 1 /\ Len(q[1]) > 1 /\ q[1][1] = p[1][1] => matched)
              /\ (Len(q[1]) = 1 /\ Len(p[1]) > 1 /\ p[1][1] = q[1][1] => matched)
              /\ (Len(p[1]) > 1 /\ Len(q[1]) > 1 /\ p[1] # q[1]
                    /\ ratio_below_080(p[1], q[1]) => ~matched)

\* "J. Smith" is accepted for "John Smith"
C5_Witness ==
    nm_pc = "done" /\ nm_search = J_Smith /\ nm_result = John_Smith /\ matched

\* the similarity of the two first tokens does not depend on their order
SimilarityIsSymmetric(a, b) ==
    LET p == split(normalize_name(a))
        q == split(normalize_name(b))
    IN  (p # <<>> /\ q # <<>>) =>
            (ratio_below_080(p[1], q[1]) <=> ratio_below_080(q[1], p[1]))

\* C6: names_match(a, b) = names_match(b, a), the similarity taken as
\* symmetric.
C6_Symmetric ==
    nm_pc = "done" =>
        (SimilarityIsSymmetric(nm_search, nm_result) =>
            (matched <=> names_match(nm_result, nm_search, DefaultThreshold)))

\* two different names that match
C6_Witness ==
    /\ nm_pc = "done" /\ matched
    /\ normalize_name(nm_search) # normalize_name(nm_result)
    /\ Len(split(normalize_name(nm_search))[1]) = 1
    /\ Len(split(normalize_name(nm_result))[1]) > 1

\* C7: a listed honorific or suffix, appended or prefixed as a word of its
\* own, does not change the normalized name.
C7_TitleStripped ==
    norm_pc = "done" => norm_with = norm_without

\* C8: save_faculty_data followed by load_faculty_data returns the list
\* that was saved, record by record and field by field.
C8_RoundTrip ==
    csv_pc = "loaded" => csv_loaded = csv_data

---------------------------------------------------------------------------
(* Claims about needs_update                                                *)

\* the positions of "-" in a text
Dashes(s) == {i \in 1..Len(s) : s[i] = "-"}

AllDigits(s) == \A k \in 1..Len(s) : IsDigit(s[k])

\* the number a text of digits stands for (at most four digits are used)
RECURSIVE TextValue(_)
TextValue(s) == IF s = <<>> THEN 0 ELSE 10 * TextValue(SubSeq(s, 1, Len(s) - 1)) + DigitValue(s[Len(s)])

\* year, month and day texts that name a day of the calendar
NamesCalendarDay(y, m, d) ==
    /\ TextValue(y) >= 1
    /\ TextValue(m) \in 1..12
    /\ TextValue(d) >= 1
    /\ TextValue(d) <= days_in_month(TextValue(y), TextValue(m))

\* a valid date written YYYY-MM-DD: ten characters, zero-padded
IsStrictDate(s) ==
    /\ Len(s) = 10 /\ s[5] = "-" /\ s[8] = "-"
    /\ AllDigits(SubSeq(s, 1, 4)) /\ AllDigits(SubSeq(s, 6, 7)) /\ AllDigits(SubSeq(s, 9, 10))
    /\ NamesCalendarDay(SubSeq(s, 1, 4), SubSeq(s, 6, 7), SubSeq(s, 9, 10))

\* a valid date written as a four-digit year, a month and a day with "-"
\* between them, month and day of one or two digits, a one-digit day
\* possibly after a space
IsLenientDate(s) ==
    /\ Cardinality(Dashes(s)) = 2
    /\ LET i == SetMin(Dashes(s))
           j == SetMin(Dashes(s) \ {i})
           y == SubSeq(s, 1, i - 1)
           m == SubSeq(s, i + 1, j - 1)
           d0 == SubSeq(s, j + 1, Len(s))
           d == IF Len(d0) = 2 /\ d0[1] = " " THEN Tail(d0) ELSE d0
       IN  /\ Len(y) = 4 /\ AllDigits(y)
           /\ Len(m) \in {1, 2} /\ AllDigits(m)
           /\ Len(d0) \in {1, 2} /\ AllDigits(d)
           /\ NamesCalendarDay(y, m, d)

IsBlank(s) == strip(s) = <<>>

\* C9 as stated: needs_update is true whenever as_of_date is empty,
\* whitespace-only or not a valid YYYY-MM-DD date.
C9_TrueUnlessStrictDate ==
    nu_pc = "done" =>
        (IsBlank(nu_date) \/ ~IsStrictDate(strip(nu_date)) => nu_result)

\* C9 amended: needs_update is true whenever as_of_date is empty,
\* whitespace-only or, with the surrounding whitespace removed, not a valid
\* date written year-month-day, where the year has four digits and the month
\* and the day have one or two.
C9_TrueUnlessLenientDate ==
    nu_pc = "done" =>
        (IsBlank(nu_date) \/ ~IsLenientDate(strip(nu_date)) => nu_result)

\* a date text of the right form that names no day, under the widest window
C9_Witness ==
    /\ nu_pc = "done" /\ nu_result /\ nu_delay = MaxDelayDays
    /\ Len(strip(nu_date)) = 10 /\ AllDigits(SubSeq(strip(nu_date), 1, 4))
    /\ ~IsLenientDate(strip(nu_date))

---------------------------------------------------------------------------
(* Claims about the runs of the two scripts                                 *)

\* the rows of a file, as load_faculty_data reads them
Rows(content) == load_faculty_data(content)

\* the names of the rows of a file, in order
NamesOf(content) == [k \in 1..Len(Rows(content)) |-> get(Rows(content)[k], F_name)]

\* the scholar_id the non-interactive loop took from the one candidate of
\* the search for the record at position k, None when it took none
AutoAccepted(k) ==
    IF \E e \in 1..Len(accept_log) : accept_log[e].index = k /\ accept_log[e].how = "auto"
    THEN accept_log[CHOOSE e \in 1..Len(accept_log) : accept_log[e].index = k].scholar_id
    ELSE None

\* a non-interactive run of the discovery script has ended, and for some
\* record without scholar_id the search had exactly one candidate
SingleCandidateRunEnded ==
    /\ script = "find" /\ pc = "exit" /\ args.non_interactive
    /\ \E k \in 1..Len(faculty_data) : AutoAccepted(k) # None

\* C1: when a non-interactive run of the discovery script has ended, the
\* file holds every original row, and each row for which the search gave
\* exactly one candidate has that candidate's scholar_id.
C1_SingleCandidateSaved ==
    SingleCandidateRunEnded =>
        /\ Len(Rows(file)) = Len(Rows(file0))
        /\ \A k \in 1..Len(Rows(file)) :
              Rows(file)[k] = IF AutoAccepted(k) # None
                              THEN [Rows(file0)[k] EXCEPT ![F_scholar_id] = AutoAccepted(k)]
                              ELSE Rows(file0)[k]

\* C2: after any run of either script the file holds as many records as
\* before the run, with the same names in the same order.
C2_RecordsNeverDeleted ==
    pc = "exit" => NamesOf(file) = NamesOf(file0)

\* C3: every run of either script on a file that can be read ends normally.
C3_EndsNormally ==
    pc = "exit" => exit_status = "ok"

\* a pass of the loop of update_citations is taken for a record whose
\* as_of_date is the date of the day, under a window of more than zero days
PassOverRecordOfToday ==
    /\ script = "update" /\ pc = "loop" /\ loop_i <= Len(faculty_data)
    /\ loop_i' = loop_i + 1
    /\ args.update_delay_days > 0
    /\ get(faculty_data[loop_i], F_as_of_date) = strftime(clock)

\* the pass makes no request, changes no field and counts the record as
\* recently updated
SkippedAsRecent ==
    /\ events' = events
    /\ faculty_data' = faculty_data /\ file' = file
    /\ skipped_recent' = skipped_recent + 1
    /\ UNCHANGED <<updated_count, skipped_count, error_count>>

\* C10 as stated: a record whose as_of_date is today's date is skipped by
\* update_citations (no metrics request, no field changed, counted as
\* recently updated) whenever update_delay_days is greater than zero.
C10_TodaySkippedAsRecent ==
    [][PassOverRecordOfToday => SkippedAsRecent]_vars

\* C10 amended: a record that has a scholar_id and whose as_of_date is
\* today's date is skipped by update_citations (no metrics request, no field
\* changed, counted as recently updated) whenever update_delay_days is
\* greater than zero; without a scholar_id it is skipped with no request and
\* no change too, but counted as having no scholar_id.
C10_TodaySkippedAsRecentWithId ==
    [][PassOverRecordOfToday =>
          IF strip(get(faculty_data[loop_i], F_scholar_id)) # <<>>
          THEN SkippedAsRecent
          ELSE /\ events' = events
               /\ faculty_data' = faculty_data /\ file' = file
               /\ skipped_count' = skipped_count + 1
               /\ UNCHANGED <<updated_count, skipped_recent, error_count>>]_vars

\* the first record has a scholar_id and today's date, and was passed over
\* as recently updated
C10_Witness ==
    /\ script = "update" /\ pc = "loop" /\ loop_i = 2
    /\ args.update_delay_days > 0
    /\ strip(get(faculty_data[1], F_scholar_id)) # <<>>
    /\ get(faculty_data[1], F_as_of_date) = strftime(clock)
    /\ skipped_recent = 1 /\ updated_count = 0 /\ error_count = 0 /\ skipped_count = 0
    /\ events = <<>>

\* a pass of the loop of update_citations is taken, under a window of zero
\* days, for a record that has a scholar_id
PassUnderWindowZero ==
    /\ script = "update" /\ pc = "loop" /\ loop_i <= Len(faculty_data)
    /\ loop_i' = loop_i + 1
    /\ args.update_delay_days = 0
    /\ strip(get(faculty_data[loop_i], F_scholar_id)) # <<>>

\* C11: with a staleness window of 0 days, every record that has a
\* scholar_id is queried for new metrics: no pass over such a record skips
\* it as recently updated, whatever its as_of_date.
C11_WindowZeroQueriesAll ==
    [][PassUnderWindowZero =>
          /\ events' # events
          /\ skipped_recent' = skipped_recent]_vars

\* a pass of the loop of update_citations made a metrics lookup, and the
\* library raised an exception in it
PassWithFailedLookup ==
    /\ script = "update" /\ pc = "loop" /\ loop_i <= Len(faculty_data)
    /\ loop_i' = loop_i + 1
    /\ events' # events
    /\ lookup'[1].failed

\* C12: in update_citations, when the metrics lookup for a record fails, the
\* failure is counted as an error and as nothing else, no record and no byte
\* of the file changes, and the loop goes on with the next record.
C12_FailedLookupCounted ==
    [][PassWithFailedLookup =>
          /\ error_count' = error_count + 1
          /\ UNCHANGED <<updated_count, skipped_count, skipped_recent>>
          /\ faculty_data' = faculty_data
          /\ file' = file
          /\ pc' = "loop" /\ exit_status' = "running"]_vars

\* the lookup for the first record failed, and the loop went on to update
\* the second
C12_Witness ==
    /\ script = "update" /\ pc = "loop" /\ loop_i = 3
    /\ error_count = 1 /\ updated_count = 1
    /\ lookup # <<>> /\ ~lookup[1].failed
    /\ faculty_data[1] = Rows(file0)[1]
    /\ faculty_data[2] # Rows(file0)[2]

\* whenever the loop stands at the start of a record (or past the last
\* one), the file holds exactly the records of the list in memory: every
\* change made to an earlier record has been written
FileEqualsListAtRecordStart ==
    pc = "loop" => Rows(file) = faculty_data

\* an exception raised while record loop_i was being processed has ended
\* the run: the loop was left without reaching its end and no summary is
\* printed
RaisedInPass ==
    /\ pc = "exit" /\ exit_status # "ok"
    /\ 1 <= loop_i /\ loop_i <= Len(faculty_data)

\* C13: in both scripts the file is written back after each successful
\* update: at the start of the processing of every record the file holds
\* exactly the records of the list in memory, so a crash while processing
\* one record loses at most that record's change. After a run that an
\* exception ended while a record was being processed, the file holds as
\* many records as the list, and every record but that one as the list has
\* it.
C13_CrashLosesAtMostOneChange ==
    /\ FileEqualsListAtRecordStart
    /\ RaisedInPass =>
          /\ Len(Rows(file)) = Len(faculty_data)
          /\ \A k \in 1..Len(faculty_data) :
                k # loop_i => Rows(file)[k] = faculty_data[k]

\* the fields in which two records differ
ChangedFields(old, new) == { f \in DOMAIN old : new[f] # old[f] }

\* the fields the update script writes
MetricFields == { F_citations, F_h_index, F_as_of_date }

\* a step of a run after the file was loaded keeps the number of records,
\* and changes a record only as the script may: the discovery script only
\* the scholar_id of a record whose scholar_id at the start of the run was
\* empty (or, unless empty_only, blank), the update script only the metric fields of a
\* record that has a scholar_id and needs updating at that moment
ChangesOnlyAsAllowed(empty_only) ==
    pc # "main" =>
      /\ Len(faculty_data') = Len(faculty_data)
      /\ \A k \in 1..Len(faculty_data) :
            faculty_data'[k] # faculty_data[k] =>
              /\ DOMAIN faculty_data'[k] = DOMAIN faculty_data[k]
              /\ faculty_data'[k][F_name] = faculty_data[k][F_name]
              /\ IF script = "find"
                 THEN /\ ChangedFields(faculty_data[k], faculty_data'[k]) = { F_scholar_id }
                      /\ IF empty_only
                         THEN get(Rows(file0)[k], F_scholar_id) = <<>>
                         ELSE IsBlank(get(Rows(file0)[k], F_scholar_id))
                 ELSE /\ ChangedFields(faculty_data[k], faculty_data'[k]) \subseteq MetricFields
                      /\ get(faculty_data[k], F_scholar_id) # <<>>
                      /\ needs_update(get(faculty_data[k], F_as_of_date),
                                      args.update_delay_days, clock)

\* C14 as stated: the discovery script changes only the scholar_id field,
\* and only of records whose scholar_id was empty when the run started; the
\* update script changes only citations, h_index and as_of_date, and only of
\* records with a non-empty scholar_id that need updating; neither script
\* changes a record's name.
C14_ChangesOnlyEmptyIds ==
    [][ChangesOnlyAsAllowed(TRUE)]_vars

\* C14 amended: the discovery script changes only the scholar_id field, and
\* only of records whose scholar_id was empty or made of whitespace only
\* when the run started; the update script changes only citations, h_index
\* and as_of_date, and only of records with a non-empty scholar_id that need
\* updating; neither script changes a record's name.
C14_ChangesOnlyBlankIds ==
    [][ChangesOnlyAsAllowed(FALSE)]_vars

\* the discovery script gave a scholar_id to a record whose scholar_id was
\* a space, next to a record that kept the scholar_id it had
C14_Witness ==
    /\ script = "find" /\ pc = "loop" /\ Len(faculty_data) = 2
    /\ \E k, j \in 1..2 :
          /\ get(Rows(file0)[k], F_scholar_id) = <<" ">>
          /\ ~IsBlank(faculty_data[k][F_scholar_id])
          /\ ~IsBlank(get(Rows(file0)[j], F_scholar_id))
          /\ faculty_data[j] = Rows(file0)[j]

\* the events that start an outbound request: a web search, the fetch of a
\* profile page, a direct Scholar search, a metrics lookup (whose second
\* call, fill, belongs to the same lookup)
OutboundRequests == { "search_web", "fetch_profile", "search_author", "search_author_id" }

\* C15: in a run of either script, every outbound request but the first
\* comes directly after a sleep: any two consecutive requests are separated
\* by the configured delay.
C15_SleepBetweenRequests ==
    \A k \in 2..Len(events) :
        (events[k] \in OutboundRequests /\ \E j \in 1..(k - 1) : events[j] \in OutboundRequests)
            => events[k - 1] = "sleep"

\* a scholar_id that is empty, or a token with no whitespace in it
IsEmptyOrToken(s) == \A k \in 1..Len(s) : ~IsSpace(s[k])

\* C16: in every state of a run of the discovery script on a file whose
\* scholar_ids are all empty or whitespace-free tokens, each record's
\* scholar_id is empty or a whitespace-free token, whichever path set it.
C16_IdsAreTokens ==
    (script = "find" /\ \A k \in 1..Len(Rows(file0)) : IsEmptyOrToken(get(Rows(file0)[k], F_scholar_id)))
        => \A k \in 1..Len(faculty_data) : IsEmptyOrToken(get(faculty_data[k], F_scholar_id))

\* the as_of_date values a step writes: by update_citations into the record
\* it updates, by extract_faculty_data into the record it is filling
WrittenDates ==
    (IF script = "update" /\ pc = "loop"
     THEN { faculty_data'[k][F_as_of_date] :
              k \in { j \in 1..Len(faculty_data) : faculty_data'[j] # faculty_data[j] } }
     ELSE {})
    \cup
    (IF ex_pc = "loop" /\ current_faculty' # current_faculty
        /\ current_faculty'[1][F_as_of_date] # <<>>
     THEN { current_faculty'[1][F_as_of_date] }
     ELSE {})

\* the date text names a day not later than the day of the clock
NotLaterThan(d, now) == toordinal(strptime(d)) <= toordinal(now)

\* C17 as stated: every as_of_date value the tools write into a record (the
\* extraction script and update_citations) is a valid calendar date not
\* later than the current date at the moment it is written, for every value
\* of the clock.
C17_WrittenDateNotLater ==
    [][\A d \in WrittenDates : IsStrictDate(d) /\ NotLaterThan(d, clock')]_vars

\* C17 amended: every as_of_date value the tools write is a valid calendar
\* date; update_citations writes the date on which it started, which is not
\* later than the current date when it is written; the extraction script
\* writes 2025-11-15 whatever the clock says.
C17_WrittenDateOfRunOrOfNotes ==
    [][\A d \in WrittenDates :
          /\ IsStrictDate(d)
          /\ IF script = "update"
             THEN d = today /\ NotLaterThan(d, clock')
             ELSE d = NotesDate]_vars

\* the extraction wrote its date into a record on a day before that date
C17_Witness ==
    /\ ex_pc = "loop" /\ current_faculty # <<>>
    /\ current_faculty[1][F_as_of_date] = NotesDate
    /\ ~NotLaterThan(NotesDate, clock)

\* the position of the first record the loop found ambiguous
FirstAmbiguous ==
    CHOOSE k \in 1..Len(faculty_data) : faculty_data[k][F_name] = ambiguous_results[1].name

\* the loop of find_missing_ids has dealt with the record at position k: it
\* gave it a scholar_id, or skipped it, or is asking the user about it
Processed(k) ==
    \/ \E e \in 1..Len(accept_log) : accept_log[e].index = k
    \/ faculty_data[k][F_name] \in Range(still_missing)
    \/ (loop_i = k /\ pc \in {"accept", "correct", "select", "manual", "confirm"})

\* C18 as stated: in find_missing_ids an ambiguous case (more than one
\* candidate for a record) makes the function return early: records that
\* come after the first ambiguous record are not processed in that run.
C18_AmbiguousEndsLoop ==
    (script = "find" /\ ambiguous_results # <<>>) =>
        \A k \in (FirstAmbiguous + 1)..Len(faculty_data) : ~Processed(k)

\* C18 amended: an ambiguous case does not end the loop of
\* find_missing_ids: when a run in which some record was ambiguous has
\* ended, and no exception ended it inside the loop, every record that
\* lacked a scholar_id at the start, those after the first ambiguous record
\* included, has been processed.
C18_AmbiguousDoesNotEndLoop ==
    (script = "find" /\ pc = "exit" /\ ambiguous_results # <<>> /\ ~RaisedInPass) =>
        \A k \in 1..Len(faculty_data) :
            IsBlank(get(Rows(file0)[k], F_scholar_id)) => Processed(k)

\* the first record was ambiguous, and the second got a scholar_id after it
C18_Witness ==
    /\ script = "find" /\ pc = "exit" /\ ambiguous_results # <<>>
    /\ FirstAmbiguous = 1
    /\ \E e \in 1..Len(accept_log) : accept_log[e].index = 2

\* C19: find_missing_ids returns the updated list of records on every path,
\* with or without ambiguous results: once its loop has ended, the value
\* main passes to the final save is the full list of records.
C19_ReturnsUpdatedList ==
    (script = "find" /\ pc = "exit" /\ loop_i > 0) =>
        (~updated_data.none /\ updated_data.list = faculty_data)

\* the assignment recorded in an entry of accept_log was verified: the user
\* accepted a prompt, selected a number or confirmed a manual entry, or the
\* candidate's name passes names_match against the name of the record
Verified(entry) ==
    \/ entry.how \in {"prompt", "select", "manual"}
    \/ names_match(faculty_data[entry.index][F_name], entry.name, DefaultThreshold)

\* C20: a scholar_id is assigned to a record only after verification:
\* either the user accepted it, or, in non-interactive mode, the candidate's
\* profile name passes names_match against the record's name, for
\* candidates of the web search and of the direct search alike.
C20_AssignedOnlyIfVerified ==
    script = "find" => \A e \in 1..Len(accept_log) : Verified(accept_log[e])

---------------------------------------------------------------------------
(* Claims about the threshold of names_match, the extraction and the        *)
(* counters of the two loops                                                *)

\* threshold=0.95, as a percentage: the threshold find_missing_ids passes
\* when it chooses the prompt for a single result
PromptThreshold == 95

\* the similarity of two tokens is below a threshold given as a percentage
ratio_below(a, b, threshold) == 100 * ratio_num(a, b) < threshold * ratio_den(a, b)

\* C21: the threshold argument of names_match is the similarity threshold
\* that is applied: two different names with equal last tokens and full
\* first names whose similarity is below the threshold do not match, under
\* the default threshold 0.85 and under 0.95.
C21_ThresholdApplied ==
    nm_pc = "done" =>
        LET p == split(normalize_name(nm_search))
            q == split(normalize_name(nm_result))
        IN  (/\ normalize_name(nm_search) # normalize_name(nm_result)
             /\ Len(p) >= 2 /\ Len(q) >= 2 /\ Last(p) = Last(q)
             /\ Len(p[1]) > 1 /\ Len(q[1]) > 1) =>
               \A threshold \in {DefaultThreshold, PromptThreshold} :
                   ratio_below(p[1], q[1], threshold)
                       => ~names_match(nm_search, nm_result, threshold)

\* the paragraph at position k of the document is a name heading: its
\* stripped text passes the tests the loop makes for a faculty name
IsNameHeading(k) ==
    \E text \in { strip(paragraphs[k]) } :
        text # <<>> /\ may_be_name(text) /\ is_name_heading(text)

\* the paragraph at position k is a 'Google Scholar Citations:' paragraph
\* whose two numbers can be read
IsMetricsParagraph(k) ==
    \E text \in { strip(paragraphs[k]) } :
        text # <<>> /\ startswith(text, MetricsPrefix) /\ metrics_search(text) # NoMatch

\* the positions of the name headings, and the j-th of them in document order
Headings == { k \in 1..Len(paragraphs) : IsNameHeading(k) }
Heading(j) == CHOOSE h \in Headings : Cardinality({ x \in Headings : x < h }) = j - 1

\* the metrics paragraphs whose most recent preceding name heading is h
MetricsUnder(h) ==
    { k \in (h + 1)..Len(paragraphs) :
        IsMetricsParagraph(k) /\ \A x \in Headings : ~(h < x /\ x < k) }

\* name, citations and h_index of the record that belongs to the heading at
\* position h: the numbers of the last metrics paragraph under it, if any
ExpectedRecord(h) ==
    IF MetricsUnder(h) = {}
    THEN << strip(paragraphs[h]), <<>>, <<>> >>
    ELSE LET last == CHOOSE k \in MetricsUnder(h) : \A x \in MetricsUnder(h) : x <= k
             match == metrics_search(strip(paragraphs[last]))
         IN  << strip(paragraphs[h]), remove_commas(match[1].citations), match[1].h_index >>

\* C22: extract_faculty_data emits exactly one record per name-heading
\* paragraph, in document order; a 'Google Scholar Citations:' paragraph sets
\* citations (commas removed) and h_index only on the record of the most
\* recent preceding name heading, and one that comes before any name
\* heading changes nothing.
C22_OneRecordPerHeading ==
    ex_pc = "exit" =>
        /\ Len(faculty_list) = Cardinality(Headings)
        /\ \A j \in 1..Len(faculty_list) :
              << faculty_list[j][F_name], faculty_list[j][F_citations], faculty_list[j][F_h_index] >>
                  = ExpectedRecord(Heading(j))

\* a document of a metrics paragraph, a name heading and another name
\* heading with a metrics paragraph of its own has been extracted
C22_Witness ==
    /\ ex_pc = "exit" /\ Len(paragraphs) = 4
    /\ IsMetricsParagraph(1) /\ IsNameHeading(2) /\ IsNameHeading(3) /\ IsMetricsParagraph(4)
    /\ Len(faculty_list) = 2
    /\ faculty_list[1][F_citations] = <<>>
    /\ faculty_list[2][F_citations] # <<>>

\* the number of the first n records of the file the run started from that
\* had no scholar_id
LackedId(n) ==
    Cardinality({ k \in 1..n : IsBlank(get(Rows(file0)[k], F_scholar_id)) })

\* the loop of a script stands at the start of a record or past the last one,
\* or the script has ended after its loop
BetweenPasses(which) ==
    /\ script = which /\ loop_i >= 1
    /\ pc \in {"loop", "exit"}
    /\ ~RaisedInPass

\* C23: every record is counted in exactly one summary counter. When the
\* loop of find_missing_ids has dealt with the records before loop_i,
\* updated_count + skipped_count is the number of those records that lacked
\* a scholar_id at the start, and still_missing holds exactly skipped_count
\* names; when the loop of update_citations has dealt with them, updated +
\* skipped (no scholar_id) + skipped (recently updated) + errors is their
\* number. At the end of either loop these are all the records. A run that
\* an exception ended inside the loop has no end of the loop to speak of.
C23_EveryRecordCountedOnce ==
    /\ BetweenPasses("find") =>
          /\ updated_count + skipped_count = LackedId(loop_i - 1)
          /\ Len(still_missing) = skipped_count
          /\ skipped_recent = 0 /\ error_count = 0
    /\ BetweenPasses("update") =>
          updated_count + skipped_count + skipped_recent + error_count = loop_i - 1
    /\ (pc = "exit" /\ loop_i >= 1 /\ ~RaisedInPass) => loop_i = Len(faculty_data) + 1

\* the loop of find_missing_ids has ended on a file of one record with a
\* scholar_id and one without, which it skipped as ambiguous
C23_Witness ==
    /\ script = "find" /\ pc = "exit" /\ loop_i = 3
    /\ LackedId(2) = 1
    /\ updated_count = 0 /\ skipped_count = 1
    /\ Len(still_missing) = 1 /\ ambiguous_results # <<>>

===========================================================================
